---- MODULE Spec2Model ----
(***************************************************************************)
(* A model of the signal-to-can firmware: the round-robin ADC acquisition  *)
(* engine (adc_module.c, non-blocking draft), the CAN transport layer      *)
(* (can_module.c, filter-bank draft), and the interrupt-driven             *)
(* configuration handler of the main.c draft.                              *)
(*                                                                         *)
(* Floats are modelled as scaled integers: voltages in millivolts, gains   *)
(* in thousandths.  The 32-bit millisecond tick keeps its width: a uint32  *)
(* value is the pair <<high half, low half>> of its 16-bit halves.         *)
(***************************************************************************)
EXTENDS Integers, Sequences, FiniteSets, TLC

(***************************************************************************)
(* Bounds of the model                                                     *)
(***************************************************************************)
MaxUptime == 4
MaxCycleLog == 9
MaxIdCount == 5
MaxTimeout == 2
MaxCalls == 1
MaxFifo == 1
MaxFrames == 2
MaxPsCalls == 2
MaxApiCalls == 1
MaxRegs == 3
MaxMaskCalls == 2

(***************************************************************************)
(* Program constants                                                       *)
(***************************************************************************)
ADC_MODULE_CHANNEL_COUNT == 8
ADC_MODULE_DEFAULT_RATE_HZ == 100
NoChannel == 255
CAN_MODULE_MAX_FILTER_IDS == 32
CAN_MODULE_FILTER_BANKS == 14
HalfWord == 65536
AdcResolutionBits == 12
NUM_CHANNELS == 8
CAN_MSG_BASE_ID == 256
CAN_CONFIG_MSG_ID == 512
CAN_SEND_INTERVAL_MS == 100
MAX_CAN_RX_CALLBACKS == 10

HAL_OK == "HAL_OK"
HAL_ERROR == "HAL_ERROR"
HAL_BUSY == "HAL_BUSY"
HAL_TIMEOUT == "HAL_TIMEOUT"

Channels == 0 .. (ADC_MODULE_CHANNEL_COUNT - 1)

(* Values the tick may hold when the modelled window opens: just after boot *)
(* and just before the 32-bit counter wraps.                                *)
TickStarts == {<<0, 0>>, <<HalfWord - 1, HalfWord - 3>>}

(* Raw counts the converter may deliver.                                    *)
RawPool == {4095}

(* Enable masks handed to ADC_Module_Set_Enable_Mask: none, channel 0,      *)
(* channels 1 and 2, channels 0 and 4, channel 7, all.                      *)
MaskPool == {0, 1, 6, 17, 128, 255}

(* Sample rates handed to ADC_Module_Init.                                  *)
InitRatePool == {500, 1000}

VARIABLES
    tick,                 \* HAL_GetTick(): uwTick, uint32_t (pair of halves)
    uptime,               \* tick steps taken in the modelled window
    s_adc,                \* "NULL" or "hadc"
    s_enable_mask,        \* uint8_t, bit i enables channel i
    s_raw,                \* uint16_t[8]
    s_pin_v,              \* float[8], millivolts
    s_scaled_v,           \* float[8], millivolts
    s_scale_gain,         \* float[8], thousandths
    s_vref_mv,            \* uint32_t
    s_sample_hz,          \* uint16_t
    s_cycle_interval_ms,  \* uint32_t
    s_cycle_start_ms,     \* uint32_t (pair of halves)
    s_scan_active,        \* uint8_t flag
    s_conv_in_progress,   \* uint8_t flag
    s_active_channel,     \* uint8_t, 0xFF = none
    adc_hw,               \* converter: "idle", "busy" (converting), "eoc"
    adc_dr,               \* converter data register
    cyc_seq,              \* channels on which a conversion was started since
                          \* the tick that opened the current scan cycle
    s_can,                \* "NULL" or "hcan"
    s_baud_enum,          \* uint32_t
    s_filter_ids,         \* uint16_t[CAN_MODULE_MAX_FILTER_IDS]
    s_filter_id_count,    \* size_t
    can_timing,           \* hcan->Init: prescaler, SJW, BS1, BS2
    can_started,          \* the controller takes part in bus traffic
    filter_banks,         \* the 14 hardware filter banks
    can_steps,            \* hardware steps performed by the last call
    can_op,               \* the last transport call and its arguments
    can_ret,              \* its return status
    tx_mailboxes,         \* frames waiting in the three TX mailboxes
    rx_fifo,              \* frames waiting in RX FIFO0
    xfer_pc,              \* "idle", "send_wait" or "recv_wait"
    xfer_start,           \* the local 'start' of the waiting call
    xfer_args,            \* the arguments of the last Send/Receive call
    xfer_ret,             \* the status it returned ("none" while it runs)
    rx_header,            \* the frame HAL_CAN_GetRxMessage last delivered
    out_std_id,           \* the caller's *std_id
    out_dlc,              \* the caller's *dlc
    out_data,             \* the caller's data buffer (8 bytes)
    out_spill,            \* bytes written past the end of that buffer
    wait_ms,              \* ticks elapsed since the waiting call started (0 when none waits)
    calls_made,           \* number of Send/Receive calls so far
    adcConfigScale,       \* adcConfigArray[i].scale, as its four bytes
    adcEnabled,           \* bool adcEnabled[NUM_CHANNELS]
    rxCbs,                \* registered callbacks, rxCbs[0 .. rxCbCount-1]
    lastCanTick,          \* uint32_t
    bus_tx,               \* frames the draft handed to CAN_Module_Send
    frames_taken,         \* frames taken from FIFO0 by the interrupt handler
    cmd_seen,             \* the frame last passed to ConfigRxCallback
    s_cal,                \* ps_cal_t[8]: gain (tenths), offset, v_min, v_max (mV)
    ps_raw,               \* process_signals.c s_raw: uint16_t[8]
    s_v_pin,              \* float[8], in units of 1/4095 mV
    s_v_in,               \* float[8], in units of 1/4095 mV
    s_v_in_mV,            \* uint16_t[8]
    s_oor_mask,           \* uint8_t, bit i: channel i out of range
    s_last_send_tick,     \* uint32_t (pair of halves)
    s_node_id,            \* uint8_t
    dma_buf,              \* the DMA-backed buffer of ADC_Module_Get_Buffer()
    ps_op,                \* the last Process_Signals call (and its period, timeout)
    ps_ret,               \* the status it returned ("none" for a void call)
    ps_calls,             \* number of Process_Signals calls so far
    pub_sent,             \* frames the last call handed to HAL_CAN_AddTxMessage
    pub_attempts,         \* entry time, period_ms and status of every due call so far
    acq_call,             \* the last acquisition API call and its arguments
    fn_call,              \* the helper function last applied, with its argument
    fn_result,            \* the value it returned
    fn_prev,              \* the application before that: <<call, result>>
    last_conv,            \* channel of the conversion completed last, 0xFF if none
    api_calls,            \* configuration calls made while the engine runs
    main_pc,              \* where main()'s loop stands: at "loop", "poll" or "send", index i
    adcValues,            \* float adcValues[NUM_CHANNELS]: reading times the scale read
    cfg_seen,             \* per channel, every (scale, enabled) pair it has held
    cb_log,               \* what the last run of the receive handler did
    ever_enabled,         \* channels enabled at some moment since ADC_Module_Init
    cycle_up,             \* milliseconds since start when s_cycle_start_ms was set
    send_up               \* milliseconds since start when s_last_send_tick was set

acqVars == <<s_adc, s_enable_mask, s_raw, s_pin_v, s_scaled_v, s_scale_gain,
             s_vref_mv, s_sample_hz, s_cycle_interval_ms, s_cycle_start_ms,
             s_scan_active, s_conv_in_progress, s_active_channel,
             adc_hw, adc_dr, cyc_seq>>

clockVars == <<tick, uptime>>

canVars == <<s_can, s_baud_enum, s_filter_ids, s_filter_id_count, can_timing,
             can_started, filter_banks, can_steps, can_op, can_ret>>

xferVars == <<tx_mailboxes, rx_fifo, xfer_pc, xfer_start, xfer_args, xfer_ret,
              rx_header, out_std_id, out_dlc, out_data, out_spill, wait_ms,
              calls_made>>

cmdVars == <<adcConfigScale, adcEnabled, rxCbs, lastCanTick, bus_tx,
             frames_taken, cmd_seen>>

psVars == <<s_cal, ps_raw, s_v_pin, s_v_in, s_v_in_mV, s_oor_mask, s_last_send_tick,
            s_node_id, dma_buf, ps_op, ps_ret, ps_calls, pub_sent, pub_attempts>>

pureVars == <<fn_call, fn_result, fn_prev>>

scanObsVars == <<last_conv, api_calls>>

loopVars == <<main_pc, adcValues, cfg_seen>>

timeObs == <<cycle_up, send_up>>

obsVars == <<cb_log, ever_enabled, timeObs>>

apiVars == <<acq_call, pureVars, scanObsVars, loopVars, obsVars>>

vars == <<clockVars, acqVars, canVars, xferVars, cmdVars, psVars, apiVars>>

(***************************************************************************)
(* Helpers                                                                 *)
(***************************************************************************)
Min(a, b) == IF a < b THEN a ELSE b

BitSet(mask, ch) == (mask \div (2 ^ ch)) % 2 = 1

EnabledChannels(mask) == {ch \in Channels : BitSet(mask, ch)}

(* uint32_t values as pairs of 16-bit halves.                               *)
U32(n) == <<n \div HalfWord, n % HalfWord>>

U32Geq(a, b) == a[1] > b[1] \/ (a[1] = b[1] /\ a[2] >= b[2])

U32Inc(a) ==
    IF a[2] + 1 < HalfWord THEN <<a[1], a[2] + 1>>
    ELSE <<(a[1] + 1) % HalfWord, 0>>

(* The distance between two tick values taken without wrap-around.          *)
ElapsedMsAbsolute(now, start) ==
    LET hi == IF U32Geq(now, start) THEN now ELSE start
        lo == IF U32Geq(now, start) THEN start ELSE now
        borrow == IF hi[2] < lo[2] THEN 1 ELSE 0
    IN <<hi[1] - lo[1] - borrow, (hi[2] - lo[2] + HalfWord) % HalfWord>>

(* Unsigned 32-bit subtraction, as (now - start) on uint32_t.               *)
ElapsedMsNoWrap(now, start) ==
    IF U32Geq(now, start)
    THEN LET borrow == IF now[2] < start[2] THEN 1 ELSE 0
         IN <<now[1] - start[1] - borrow, (now[2] - start[2] + HalfWord) % HalfWord>>
    ELSE <<0, 0>>
ElapsedMs(now, start) ==
    LET borrow == IF now[2] < start[2] THEN 1 ELSE 0
    IN <<(now[1] - start[1] - borrow + HalfWord) % HalfWord,
         (now[2] - start[2] + HalfWord) % HalfWord>>

LogStart(seq, ch) == IF Len(seq) < MaxCycleLog THEN Append(seq, ch) ELSE seq

(***************************************************************************)
(* Acquisition engine (adc_module.c, round-robin draft)                    *)
(***************************************************************************)

(* The module's private state as one record, so that the helpers below can *)
(* be composed the way the C functions call each other.                     *)
AcqNow ==
    [adc |-> s_adc, mask |-> s_enable_mask, raw |-> s_raw, pin |-> s_pin_v,
     scaled |-> s_scaled_v, gain |-> s_scale_gain, vref |-> s_vref_mv,
     hz |-> s_sample_hz, interval |-> s_cycle_interval_ms,
     cycle_start |-> s_cycle_start_ms, scan |-> s_scan_active,
     conv |-> s_conv_in_progress, active |-> s_active_channel,
     hw |-> adc_hw, dr |-> adc_dr, log |-> cyc_seq]

AcqInstall(a) ==
    /\ s_adc' = a.adc
    /\ s_enable_mask' = a.mask
    /\ s_raw' = a.raw
    /\ s_pin_v' = a.pin
    /\ s_scaled_v' = a.scaled
    /\ s_scale_gain' = a.gain
    /\ s_vref_mv' = a.vref
    /\ s_sample_hz' = a.hz
    /\ s_cycle_interval_ms' = a.interval
    /\ s_cycle_start_ms' = a.cycle_start
    /\ s_scan_active' = a.scan
    /\ s_conv_in_progress' = a.conv
    /\ s_active_channel' = a.active
    /\ adc_hw' = a.hw
    /\ adc_dr' = a.dr
    /\ cyc_seq' = a.log

adc_max_count ==
    CASE AdcResolutionBits = 6 -> 63
      [] AdcResolutionBits = 8 -> 255
      [] AdcResolutionBits = 10 -> 1023
      [] OTHER -> 4095

(* pin_v = raw * vref_mv / (max_count * 1000) volts, here in millivolts.    *)
PinVoltage(raw, vref_mv) == (raw * vref_mv) \div adc_max_count

ScaledVoltage(pin_mv, gain_milli) == (pin_mv * gain_milli) \div 1000

(* The channel index the search loop visits at step n from idx.             *)
SearchChannel(idx, n) == (idx + n) % ADC_MODULE_CHANNEL_COUNT

(* A search that takes the first channel it looks at, enabled or not.       *)
start_next_conversion_unmasked(a, start_index, selOk, startOk) ==
    IF a.adc = "NULL" THEN [st |-> HAL_ERROR, a |-> a]
    ELSE
      LET ch == IF start_index = NoChannel THEN 0
                ELSE (start_index + 1) % ADC_MODULE_CHANNEL_COUNT
      IN IF ~selOk THEN [st |-> HAL_ERROR, a |-> a]
         ELSE IF startOk
              THEN [st |-> HAL_OK,
                    a |-> [a EXCEPT !.active = ch, !.conv = 1, !.hw = "busy",
                                    !.log = LogStart(a.log, ch)]]
              ELSE [st |-> HAL_ERROR, a |-> [a EXCEPT !.active = ch]]

(* start_next_enabled_conversion(start_index): the outcome of               *)
(* adc_select_channel and HAL_ADC_Start are the inputs selOk, startOk.      *)
start_next_enabled_conversion(a, start_index, selOk, startOk) ==
    IF a.adc = "NULL" THEN [st |-> HAL_ERROR, a |-> a]
    ELSE
      LET idx == IF start_index = NoChannel THEN 0 ELSE (start_index + 1) % 256
          hits == {n \in 0 .. (ADC_MODULE_CHANNEL_COUNT - 1) :
                      /\ SearchChannel(idx, n) \in Channels
                      /\ BitSet(a.mask, SearchChannel(idx, n))}
      IN IF hits = {}
         THEN [st |-> HAL_BUSY,
               a |-> [a EXCEPT !.active = NoChannel, !.conv = 0]]
         ELSE
           LET n0 == CHOOSE n \in hits : \A m \in hits : n <= m
               ch == SearchChannel(idx, n0)
           IN IF ~selOk THEN [st |-> HAL_ERROR, a |-> a]
              ELSE IF startOk
                   THEN [st |-> HAL_OK,
                         a |-> [a EXCEPT !.active = ch, !.conv = 1,
                                         !.hw = "busy",
                                         !.log = LogStart(a.log, ch)]]
                   ELSE [st |-> HAL_ERROR, a |-> [a EXCEPT !.active = ch]]

(* service_conversion_state(): zero-timeout poll, store, advance.           *)
service_conversion_waiting(a, selOk, startOk) ==
    IF a.conv = 0 \/ a.adc = "NULL" THEN a
    ELSE
      LET raw == IF a.hw = "eoc" THEN a.dr ELSE 4095
          ch == a.active
          pin == PinVoltage(raw, a.vref)
          stored ==
            IF ch < ADC_MODULE_CHANNEL_COUNT
            THEN [a EXCEPT !.raw[ch] = raw % 65536,
                           !.pin[ch] = pin,
                           !.scaled[ch] = ScaledVoltage(pin, a.gain[ch])]
            ELSE a
          stopped == [stored EXCEPT !.hw = "idle", !.conv = 0]
          r == start_next_enabled_conversion(stopped, ch, selOk, startOk)
      IN IF r.st # HAL_OK
         THEN [r.a EXCEPT !.scan = 0, !.active = NoChannel]
         ELSE r.a
service_conversion_dropping(a, selOk, startOk) ==
    IF a.conv = 0 \/ a.adc = "NULL" THEN a
    ELSE IF a.hw # "eoc" THEN a
    ELSE
      LET raw == a.dr
          ch == a.active
          pin == PinVoltage(raw, a.vref)
          stored ==
            IF ch < ADC_MODULE_CHANNEL_COUNT /\ BitSet(a.mask, ch)
            THEN [a EXCEPT !.raw[ch] = raw % 65536,
                           !.pin[ch] = pin,
                           !.scaled[ch] = ScaledVoltage(pin, a.gain[ch])]
            ELSE a
          stopped == [stored EXCEPT !.hw = "idle", !.conv = 0]
          r == start_next_enabled_conversion(stopped, ch, selOk, startOk)
      IN IF r.st # HAL_OK
         THEN [r.a EXCEPT !.scan = 0, !.active = NoChannel]
         ELSE r.a
service_conversion_state(a, selOk, startOk) ==
    IF a.conv = 0 \/ a.adc = "NULL" THEN a
    ELSE IF a.hw # "eoc" THEN a
    ELSE
      LET raw == a.dr
          ch == a.active
          pin == PinVoltage(raw, a.vref)
          stored ==
            IF ch < ADC_MODULE_CHANNEL_COUNT
            THEN [a EXCEPT !.raw[ch] = raw % 65536,
                           !.pin[ch] = pin,
                           !.scaled[ch] = ScaledVoltage(pin, a.gain[ch])]
            ELSE a
          stopped == [stored EXCEPT !.hw = "idle", !.conv = 0]
          r == start_next_enabled_conversion(stopped, ch, selOk, startOk)
      IN IF r.st # HAL_OK
         THEN [r.a EXCEPT !.scan = 0, !.active = NoChannel]
         ELSE r.a

recompute_truncating(hz0) ==
    LET hz == IF hz0 = 0 THEN 1 ELSE hz0
    IN 1000 \div hz
recompute_cycle_interval(hz0) ==
    LET hz == IF hz0 = 0 THEN 1 ELSE hz0
    IN (1000 + (hz \div 2)) \div hz

(* The body of ADC_Module_Task after the NULL check.                        *)
TaskBodyKeepingScan(a, now, selOk1, startOk1, selOk2, startOk2) ==
    LET a1 == service_conversion_state(a, selOk1, startOk1)
    IN IF a1.scan = 0 /\ U32Geq(ElapsedMs(now, a1.cycle_start), U32(a1.interval))
       THEN LET opened == [a1 EXCEPT !.cycle_start = now, !.scan = 1,
                                     !.conv = 0, !.active = NoChannel,
                                     !.log = <<>>]
                r == start_next_enabled_conversion(opened, NoChannel, selOk2, startOk2)
            IN r.a
       ELSE a1
TaskBodyUnguarded(a, now, selOk1, startOk1, selOk2, startOk2) ==
    LET a1 == service_conversion_state(a, selOk1, startOk1)
    IN IF U32Geq(ElapsedMs(now, a1.cycle_start), U32(a1.interval))
       THEN LET opened == [a1 EXCEPT !.cycle_start = now, !.scan = 1,
                                     !.conv = 0, !.active = NoChannel,
                                     !.log = <<>>]
                r == start_next_enabled_conversion(opened, NoChannel, selOk2, startOk2)
            IN IF r.st # HAL_OK THEN [r.a EXCEPT !.scan = 0] ELSE r.a
       ELSE a1
TaskBodyResuming(a, now, selOk1, startOk1, selOk2, startOk2) ==
    LET a1 == service_conversion_state(a, selOk1, startOk1)
    IN IF a1.scan = 0 /\ U32Geq(ElapsedMs(now, a1.cycle_start), U32(a1.interval))
       THEN LET opened == [a1 EXCEPT !.cycle_start = now, !.scan = 1,
                                     !.conv = 0, !.log = <<>>]
                r == start_next_enabled_conversion(opened, a1.active, selOk2, startOk2)
            IN IF r.st # HAL_OK THEN [r.a EXCEPT !.scan = 0] ELSE r.a
       ELSE a1
TaskBody(a, now, selOk1, startOk1, selOk2, startOk2) ==
    LET a1 == service_conversion_state(a, selOk1, startOk1)
    IN IF a1.scan = 0 /\ U32Geq(ElapsedMs(now, a1.cycle_start), U32(a1.interval))
       THEN LET opened == [a1 EXCEPT !.cycle_start = now, !.scan = 1,
                                     !.conv = 0, !.active = NoChannel,
                                     !.log = <<>>]
                r == start_next_enabled_conversion(opened, NoChannel, selOk2, startOk2)
            IN IF r.st # HAL_OK THEN [r.a EXCEPT !.scan = 0] ELSE r.a
       ELSE a1

ADC_Module_Task(selOk1, startOk1, selOk2, startOk2) ==
    /\ s_adc # "NULL"
    /\ \E a2 \in {TaskBody(AcqNow, tick, selOk1, startOk1, selOk2, startOk2)} :
          AcqInstall(a2)
    /\ UNCHANGED clockVars

(* The converter finishes the conversion that was started.                  *)
AdcConversionDone ==
    /\ adc_hw = "busy"
    /\ \E raw \in RawPool : adc_dr' = raw
    /\ adc_hw' = "eoc"
    /\ UNCHANGED <<s_adc, s_enable_mask, s_raw, s_pin_v, s_scaled_v, s_scale_gain,
                   s_vref_mv, s_sample_hz, s_cycle_interval_ms, s_cycle_start_ms,
                   s_scan_active, s_conv_in_progress, s_active_channel, cyc_seq>>
    /\ UNCHANGED clockVars

(* The SysTick interrupt advances the millisecond counter.                  *)
TickAdvance ==
    /\ uptime < MaxUptime
    /\ tick' = U32Inc(tick)
    /\ uptime' = uptime + 1

(* The static initialisers of the module's private state.                   *)
AcqStatic ==
    [adc |-> "NULL", mask |-> 0,
     raw |-> [c \in Channels |-> 0], pin |-> [c \in Channels |-> 0],
     scaled |-> [c \in Channels |-> 0], gain |-> [c \in Channels |-> 0],
     vref |-> 3300, hz |-> ADC_MODULE_DEFAULT_RATE_HZ, interval |-> 10,
     cycle_start |-> <<0, 0>>, scan |-> 0, conv |-> 0, active |-> NoChannel,
     hw |-> "idle", dr |-> 0, log |-> <<>>]

(* ADC_Module_Init(hadc, vref_mv, sample_hz) with a non-NULL handle.        *)
InitBody(a, vref_mv, sample_hz, now) ==
    LET hz == IF sample_hz = 0 THEN ADC_MODULE_DEFAULT_RATE_HZ ELSE sample_hz
    IN [a EXCEPT !.adc = "hadc",
                 !.vref = IF vref_mv = 0 THEN 3300 ELSE vref_mv,
                 !.mask = 0,
                 !.gain = [c \in Channels |-> 1000],
                 !.raw = [c \in Channels |-> 0],
                 !.pin = [c \in Channels |-> 0],
                 !.scaled = [c \in Channels |-> 0],
                 !.hz = hz,
                 !.interval = recompute_cycle_interval(hz),
                 !.cycle_start = now,
                 !.scan = 0, !.conv = 0, !.active = NoChannel]

(* ADC_Module_Set_Enable_Mask(enable_mask)                                  *)
SetEnableMaskBody(a, enable_mask) == [a EXCEPT !.mask = enable_mask]

(* ADC_Module_Set_Sample_Rate(sample_hz)                                    *)
SetSampleRateRestarting(a, sample_hz) ==
    LET hz1 == IF sample_hz = 0 THEN 1 ELSE sample_hz
        hz2 == IF hz1 > 2000 THEN 2000 ELSE hz1
    IN [a EXCEPT !.hz = hz2, !.interval = recompute_cycle_interval(hz2),
                 !.scan = 0, !.conv = 0, !.active = NoChannel]
SetSampleRateBody(a, sample_hz) ==
    LET hz1 == IF sample_hz = 0 THEN 1 ELSE sample_hz
        hz2 == IF hz1 > 2000 THEN 2000 ELSE hz1
    IN [a EXCEPT !.hz = hz2, !.interval = recompute_cycle_interval(hz2)]

(* sample_hz handed to ADC_Module_Init and to ADC_Module_Set_Sample_Rate:   *)
(* the ends of the uint16_t range, the clamp limits and their neighbours,   *)
(* and rates whose period is not a whole number of milliseconds.            *)
SampleHzPool == {0, 1, 2, 3, 7, 16, 100, 667, 1999, 2000, 2001, 5000, 65535}

(* ADC_Module_Init(hadc, vref_mv, sample_hz)                                *)
ADC_Module_Init ==
    \E hadc \in {"NULL", "hadc"}, vref_mv \in {0, 5000}, sample_hz \in SampleHzPool :
       /\ acq_call' = [name |-> "init", hadc |-> hadc, sample_hz |-> sample_hz]
       /\ IF hadc = "NULL"
          THEN UNCHANGED acqVars
          ELSE \E a2 \in {InitBody(AcqNow, vref_mv, sample_hz, tick)} : AcqInstall(a2)

(* One call ADC_Module_Set_Sample_Rate(sample_hz).                          *)
SetSampleRateCall(sample_hz) ==
    /\ acq_call' = [name |-> "set_sample_rate", sample_hz |-> sample_hz]
    /\ \E a2 \in {SetSampleRateBody(AcqNow, sample_hz)} : AcqInstall(a2)

(* ADC_Module_Set_Sample_Rate(sample_hz)                                    *)
ADC_Module_Set_Sample_Rate == \E sample_hz \in SampleHzPool : SetSampleRateCall(sample_hz)

(* One call ADC_Module_Set_Enable_Mask(enable_mask).                        *)
SetEnableMaskCall(enable_mask) ==
    /\ acq_call' = [name |-> "set_enable_mask", enable_mask |-> enable_mask]
    /\ \E a2 \in {SetEnableMaskBody(AcqNow, enable_mask)} : AcqInstall(a2)

(* ADC_Module_Set_Enable_Mask(enable_mask)                                  *)
ADC_Module_Set_Enable_Mask == \E enable_mask \in MaskPool : SetEnableMaskCall(enable_mask)

(* ADC_Module_Enable_Channel(channel_index, enable)                         *)
EnableChannelBody(a, channel_index, enable) ==
    IF channel_index >= ADC_MODULE_CHANNEL_COUNT THEN a
    ELSE LET bit == 2 ^ channel_index
             set == BitSet(a.mask, channel_index)
         IN IF enable # 0
            THEN [a EXCEPT !.mask = IF set THEN a.mask ELSE a.mask + bit]
            ELSE [a EXCEPT !.mask = IF set THEN a.mask - bit ELSE a.mask]

(* ADC_Module_Set_Scale(channel_index, scale_gain)                          *)
SetScaleWrapping(a, channel_index, scale_gain) ==
    [a EXCEPT !.gain[channel_index % ADC_MODULE_CHANNEL_COUNT] = scale_gain]
SetScaleBody(a, channel_index, scale_gain) ==
    IF channel_index >= ADC_MODULE_CHANNEL_COUNT THEN a
    ELSE [a EXCEPT !.gain[channel_index] = scale_gain]

(* Arguments of ADC_Module_Enable_Channel: two valid indices, the first     *)
(* invalid one and the largest uint8_t.                                     *)
EnableArgPool ==
    {[channel_index |-> c, enable |-> e] : c \in {0, 4, 8, 255}, e \in {0, 1}}

(* Arguments of ADC_Module_Set_Scale, the gain in thousandths.              *)
ScaleArgPool ==
    { [channel_index |-> 1, scale_gain |-> 2000],
      [channel_index |-> 7, scale_gain |-> 500],
      [channel_index |-> 8, scale_gain |-> 2000],
      [channel_index |-> 255, scale_gain |-> 500] }

(* One call ADC_Module_Enable_Channel(arg.channel_index, arg.enable).       *)
EnableChannelCall(arg) ==
    /\ acq_call' = [name |-> "enable_channel", arg |-> arg]
    /\ \E a2 \in {EnableChannelBody(AcqNow, arg.channel_index, arg.enable)} :
          AcqInstall(a2)

ADC_Module_Enable_Channel == \E arg \in EnableArgPool : EnableChannelCall(arg)

ADC_Module_Set_Scale ==
    \E arg \in ScaleArgPool :
       /\ acq_call' = [name |-> "set_scale", arg |-> arg]
       /\ \E a2 \in {SetScaleBody(AcqNow, arg.channel_index, arg.scale_gain)} :
             AcqInstall(a2)

AcqIs(a) ==
    /\ s_adc = a.adc
    /\ s_enable_mask = a.mask
    /\ s_raw = a.raw
    /\ s_pin_v = a.pin
    /\ s_scaled_v = a.scaled
    /\ s_scale_gain = a.gain
    /\ s_vref_mv = a.vref
    /\ s_sample_hz = a.hz
    /\ s_cycle_interval_ms = a.interval
    /\ s_cycle_start_ms = a.cycle_start
    /\ s_scan_active = a.scan
    /\ s_conv_in_progress = a.conv
    /\ s_active_channel = a.active
    /\ adc_hw = a.hw
    /\ adc_dr = a.dr
    /\ cyc_seq = a.log


(***************************************************************************)
(* CAN transport layer (can_module.c, filter-bank draft)                   *)
(***************************************************************************)

(* Lists handed to CAN_Module_Update_StdId_Filters: the first n entries of  *)
(* a table of plain 11-bit identifiers, and two lists whose first entry     *)
(* carries a bit above the 11-bit field and whose second is identifier 0.   *)
ListA(n) == [i \in 1 .. n |-> 256 + i]

ListB(n) == [i \in 1 .. n |-> IF i = 2 THEN 0 ELSE 2048 + 291]

(* A list one longer than the module's storage, and one longer than the 14  *)
(* banks can hold.                                                          *)
LongLists ==
    {ListA(CAN_MODULE_MAX_FILTER_IDS + 1), ListA((4 * CAN_MODULE_FILTER_BANKS) + 1)}

IdLists == {ListA(n) : n \in 0 .. MaxIdCount} \cup {ListB(1), ListB(2)} \cup LongLists

(* Calls of CAN_Module_Update_StdId_Filters: each list with a valid         *)
(* pointer, and a NULL pointer with a count of 1.                           *)
FilterArgPool ==
    {[ptr |-> "list", id_list |-> l] : l \in IdLists}
       \cup {[ptr |-> "NULL", id_list |-> ListA(1)]}

(* Baud selectors handed to CAN_Module_Init and CAN_Module_Update_Baud.     *)
BaudPool == {1, 3, 7}

Banks == 0 .. (CAN_MODULE_FILTER_BANKS - 1)

(* A filter bank as HAL_CAN_ConfigFilter leaves it: the activation bit, the *)
(* mode, the scale, and the four 16-bit register halves FilterIdHigh,       *)
(* FilterIdLow, FilterMaskIdHigh, FilterMaskIdLow.                          *)
BankOff == [active |-> FALSE, mode |-> "IDMASK", scale |-> 32, regs |-> <<0, 0, 0, 0>>]

BankAcceptAll == [active |-> TRUE, mode |-> "IDMASK", scale |-> 32, regs |-> <<0, 0, 0, 0>>]

BankIdList(e0, e1, e2, e3) ==
    [active |-> TRUE, mode |-> "IDLIST", scale |-> 16, regs |-> <<e0, e1, e2, e3>>]

encode_filter16_std_id(std_id) == ((std_id % 2048) * 32) % 65536

PrescalerHalved(baud_enum) ==
    CASE baud_enum = 1 -> 12
      [] baud_enum = 2 -> 6
      [] baud_enum = 3 -> 4
      [] OTHER -> 24
Prescaler(baud_enum) ==
    CASE baud_enum = 1 -> 12
      [] baud_enum = 2 -> 6
      [] baud_enum = 3 -> 3
      [] OTHER -> 24

set_bit_timing_for_baud(baud_enum) ==
    [prescaler |-> Prescaler(baud_enum), sjw |-> 1, bs1 |-> 13, bs2 |-> 2]

(* The transport state as one record.                                       *)
CanNow ==
    [can |-> s_can, baud |-> s_baud_enum, ids |-> s_filter_ids,
     count |-> s_filter_id_count, timing |-> can_timing,
     started |-> can_started, banks |-> filter_banks, steps |-> can_steps]

CanInstall(c) ==
    /\ s_can' = c.can
    /\ s_baud_enum' = c.baud
    /\ s_filter_ids' = c.ids
    /\ s_filter_id_count' = c.count
    /\ can_timing' = c.timing
    /\ can_started' = c.started
    /\ filter_banks' = c.banks
    /\ can_steps' = c.steps

apply_accept_all_resetting(c, cfgOk) ==
    IF c.can = "NULL" \/ ~cfgOk THEN [st |-> HAL_ERROR, c |-> c]
    ELSE [st |-> HAL_OK,
          c |-> [c EXCEPT !.banks = [b \in Banks |-> IF b = 0 THEN BankAcceptAll
                                                      ELSE BankOff]]]

(* apply_accept_all_filter(): one HAL_CAN_ConfigFilter call, on bank 0.     *)
apply_accept_all_filter(c, cfgOk) ==
    IF c.can = "NULL" THEN [st |-> HAL_ERROR, c |-> c]
    ELSE IF ~cfgOk THEN [st |-> HAL_ERROR, c |-> c]
    ELSE [st |-> HAL_OK, c |-> [c EXCEPT !.banks[0] = BankAcceptAll]]

(* The bank programmed in the loop round that starts at list index idx      *)
(* (0-based) with 'remaining' identifiers left.                             *)
ListBank(ids, idx, remaining) ==
    BankIdList(encode_filter16_std_id(ids[idx + 1]),
               IF remaining > 1 THEN encode_filter16_std_id(ids[idx + 2]) ELSE 0,
               IF remaining > 2 THEN encode_filter16_std_id(ids[idx + 3]) ELSE 0,
               IF remaining > 3 THEN encode_filter16_std_id(ids[idx + 4]) ELSE 0)

BanksNeededNoCeil(count) == Min(count \div 4, CAN_MODULE_FILTER_BANKS)
BanksNeeded(count) == Min((count + 3) \div 4, CAN_MODULE_FILTER_BANKS)

(* reapply_id_list_filters().  HAL_CAN_ConfigFilter refuses or accepts a    *)
(* configuration according to the state of the handle, which the routine    *)
(* does not change: cfgOk is its outcome for every call of one run.         *)
reapply_id_list_filters(c, cfgOk) ==
    IF c.can = "NULL" THEN [st |-> HAL_ERROR, c |-> c]
    ELSE IF c.count = 0 THEN apply_accept_all_filter(c, cfgOk)
    ELSE IF ~cfgOk THEN [st |-> HAL_ERROR, c |-> c]
    ELSE
      LET used == BanksNeeded(c.count)
      IN [st |-> HAL_OK,
          c |-> [c EXCEPT !.banks =
                   [b \in Banks |->
                      IF b < used
                      THEN ListBank(c.ids, 4 * b, c.count - 4 * b)
                      ELSE BankOff]]]

(* A successful HAL_CAN_Init: the controller is initialised and stopped.    *)
(* Whether re-initialisation keeps the programmed filter banks is left to   *)
(* the controller: initClears says that it reset them.                      *)
HalCanInit(c, initClears) ==
    [c EXCEPT !.started = FALSE,
              !.banks = IF initClears THEN [b \in Banks |-> BankOff] ELSE c.banks,
              !.steps = Append(c.steps, "init")]

(* CAN_Module_Init(hcan, baud_enum) with a non-NULL handle.                 *)
CanInitBody(c, baud_enum, initOk, initClears, cfgOk, startOk) ==
    LET c1 == [c EXCEPT !.can = "hcan", !.baud = baud_enum,
                        !.timing = set_bit_timing_for_baud(baud_enum),
                        !.steps = <<"timing">>]
    IN IF ~initOk THEN [st |-> HAL_ERROR, c |-> c1]
       ELSE
         LET c2 == HalCanInit(c1, initClears)
             f == apply_accept_all_filter(c2, cfgOk)
         IN IF f.st # HAL_OK THEN [st |-> HAL_ERROR, c |-> f.c]
            ELSE
              LET c3 == [f.c EXCEPT !.steps = Append(f.c.steps, "filters")]
              IN IF ~startOk THEN [st |-> HAL_ERROR, c |-> c3]
                 ELSE [st |-> HAL_OK,
                       c |-> [c3 EXCEPT !.started = TRUE,
                                        !.steps = Append(c3.steps, "start")]]

(* A baud update that forgets that HAL_CAN_Stop stopped the controller.     *)
UpdateBaudKeepingStarted(c, baud_enum, stopOk, initOk, initClears, cfgOk, startOk) ==
    IF c.can = "NULL" THEN [st |-> HAL_ERROR, c |-> [c EXCEPT !.steps = <<>>]]
    ELSE IF ~stopOk THEN [st |-> HAL_ERROR, c |-> [c EXCEPT !.steps = <<>>]]
    ELSE
      LET c1 == [c EXCEPT !.baud = baud_enum,
                          !.timing = set_bit_timing_for_baud(baud_enum),
                          !.steps = <<"stop", "timing">>]
      IN IF ~initOk THEN [st |-> HAL_ERROR, c |-> c1]
         ELSE
           LET f == reapply_id_list_filters(c1, cfgOk)
           IN IF f.st # HAL_OK THEN [st |-> HAL_ERROR, c |-> f.c]
              ELSE
                LET c3 == [f.c EXCEPT !.steps = Append(f.c.steps, "filters")]
                IN IF ~startOk THEN [st |-> HAL_ERROR, c |-> c3]
                   ELSE [st |-> HAL_OK,
                         c |-> [c3 EXCEPT !.started = TRUE,
                                          !.steps = Append(c3.steps, "start")]]

(* CAN_Module_Update_Baud(baud_enum)                                        *)
UpdateBaudBody(c, baud_enum, stopOk, initOk, initClears, cfgOk, startOk) ==
    IF c.can = "NULL" THEN [st |-> HAL_ERROR, c |-> [c EXCEPT !.steps = <<>>]]
    ELSE IF ~stopOk THEN [st |-> HAL_ERROR, c |-> [c EXCEPT !.steps = <<>>]]
    ELSE
      LET c1 == [c EXCEPT !.started = FALSE, !.baud = baud_enum,
                          !.timing = set_bit_timing_for_baud(baud_enum),
                          !.steps = <<"stop", "timing">>]
      IN IF ~initOk THEN [st |-> HAL_ERROR, c |-> c1]
         ELSE
           LET c2 == HalCanInit(c1, initClears)
               f == reapply_id_list_filters(c2, cfgOk)
           IN IF f.st # HAL_OK THEN [st |-> HAL_ERROR, c |-> f.c]
              ELSE
                LET c3 == [f.c EXCEPT !.steps = Append(f.c.steps, "filters")]
                IN IF ~startOk THEN [st |-> HAL_ERROR, c |-> c3]
                   ELSE [st |-> HAL_OK,
                         c |-> [c3 EXCEPT !.started = TRUE,
                                          !.steps = Append(c3.steps, "start")]]

(* memcpy(s_filter_ids, id_list, id_count * sizeof(uint16_t))               *)
StoreIdsByteCount(ids, id_list, id_count) ==
    [i \in 1 .. CAN_MODULE_MAX_FILTER_IDS |->
        IF i <= id_count \div 2 THEN id_list[i] ELSE ids[i]]
StoreIds(ids, id_list, id_count) ==
    [i \in 1 .. CAN_MODULE_MAX_FILTER_IDS |->
        IF i <= id_count THEN id_list[i] ELSE ids[i]]

(* CAN_Module_Update_StdId_Filters(id_list, id_count)                       *)
UpdateFiltersBody(c, ptr, id_list, cfgOk) ==
    LET c0 == [c EXCEPT !.steps = <<>>]
    IN IF c.can = "NULL" THEN [st |-> HAL_ERROR, c |-> c0]
       ELSE IF Len(id_list) = 0 \/ ptr = "NULL"
       THEN reapply_id_list_filters([c0 EXCEPT !.count = 0], cfgOk)
       ELSE
         LET id_count == Min(Len(id_list), CAN_MODULE_MAX_FILTER_IDS)
         IN reapply_id_list_filters(
               [c0 EXCEPT !.ids = StoreIds(c.ids, id_list, id_count),
                          !.count = id_count], cfgOk)

CAN_Module_Init ==
    \E baud_enum \in BaudPool, initOk, initClears, cfgOk, startOk \in BOOLEAN :
      \E r \in {CanInitBody(CanNow, baud_enum, initOk, initClears, cfgOk, startOk)} :
        /\ CanInstall(r.c)
        /\ can_op' = [name |-> "init"]
        /\ can_ret' = r.st

CAN_Module_Update_Baud ==
    \E baud_enum \in BaudPool, stopOk, initOk, initClears, cfgOk, startOk \in BOOLEAN :
      \E r \in {UpdateBaudBody(CanNow, baud_enum, stopOk, initOk, initClears, cfgOk, startOk)} :
        /\ CanInstall(r.c)
        /\ can_op' = [name |-> "baud"]
        /\ can_ret' = r.st

CAN_Module_Update_StdId_Filters ==
    \E arg \in FilterArgPool, cfgOk \in BOOLEAN :
      \E r \in {UpdateFiltersBody(CanNow, arg.ptr, arg.id_list, cfgOk)} :
        /\ CanInstall(r.c)
        /\ can_op' = [name |-> "filters", ptr |-> arg.ptr, id_list |-> arg.id_list]
        /\ can_ret' = r.st

(***************************************************************************)
(* Bounded send and receive                                                *)
(***************************************************************************)
TxMailboxCount == 3

Payload == <<17, 34, 51, 68, 85, 102, 119, 136>>

TimeoutPool == {0, MaxTimeout}

(* Calls of CAN_Module_Send_Std: identifiers with and without bits above    *)
(* the 11-bit field, the shortest and the longest payload, and the two      *)
(* calls the entry check refuses (data = NULL, dlc = 9).                    *)
SendArgPool ==
    {[name |-> "send", std_id |-> i, data |-> "payload", dlc |-> l, timeout_ms |-> t] :
        i \in {291, 2048 + 291}, l \in {0, 8}, t \in TimeoutPool}
    \cup {[name |-> "send", std_id |-> 291, data |-> "NULL", dlc |-> 8, timeout_ms |-> 0],
          [name |-> "send", std_id |-> 291, data |-> "payload", dlc |-> 9,
           timeout_ms |-> MaxTimeout]}

(* Calls of CAN_Module_Receive_Std: valid output pointers, or a NULL one.   *)
RecvArgPool ==
    {[name |-> "recv", ptrs |-> "valid", timeout_ms |-> t] : t \in TimeoutPool}
    \cup {[name |-> "recv", ptrs |-> "NULL", timeout_ms |-> 0]}

(* Frames that arrive from the bus: a short standard frame, an extended     *)
(* frame, and a standard frame whose header reports DLC 9.                  *)
RxFramePool ==
    {[ide |-> "STD", id |-> 517, dlc |-> 3, data |-> <<1, 2, 3, 4, 5, 6, 7, 8>>],
     [ide |-> "EXT", id |-> 2047, dlc |-> 2, data |-> <<9, 9, 9, 9, 9, 9, 9, 9>>],
     [ide |-> "STD", id |-> 256, dlc |-> 9, data |-> <<8, 7, 6, 5, 4, 3, 2, 1>>]}

(* Bytes found behind the 8-byte local buffer rx_data.                      *)
StrayBytes == {0, 255}

(* A frame queued by an earlier sender.                                     *)
QueuedFrame == [id |-> 1, dlc |-> 0, data |-> <<>>]

(* HAL_CAN_GetTxMailboxesFreeLevel                                          *)
TxFreeLevel(mailboxes) == TxMailboxCount - Len(mailboxes)

(* The loop of wait_for_tx_mailbox and of CAN_Module_Receive_Std at one     *)
(* evaluation: "ready" when the resource is there, HAL_TIMEOUT when it is   *)
(* not and the timeout has elapsed, "waiting" otherwise.                    *)
PollLoop(level, now, start, timeout_ms) ==
    IF level # 0 THEN "ready"
    ELSE IF U32Geq(ElapsedMs(now, start), U32(timeout_ms)) THEN HAL_TIMEOUT
    ELSE "waiting"

wait_for_tx_mailbox(mailboxes, now, start, timeout_ms) ==
    PollLoop(TxFreeLevel(mailboxes), now, start, timeout_ms)

(* The header and payload CAN_Module_Send_Std hands to HAL_CAN_AddTxMessage *)
TxFrameUnmasked(std_id, dlc) == [id |-> std_id, dlc |-> dlc, data |-> SubSeq(Payload, 1, dlc)]
TxFrame(std_id, dlc) == [id |-> std_id % 2048, dlc |-> dlc, data |-> SubSeq(Payload, 1, dlc)]

(* memcpy(data, rx_data, *dlc): the bytes of the caller's 8-byte buffer     *)
CopyNothing(buf, rx_data, dlc) == buf
CopyPayload(buf, rx_data, dlc) ==
    [i \in 1 .. 8 |-> IF i <= dlc THEN rx_data[i] ELSE buf[i]]

(* CAN_Module_Send_Std: entry, up to the first evaluation of the wait loop. *)
CAN_Module_Send_Std_Call ==
    /\ xfer_pc = "idle"
    /\ calls_made < MaxCalls
    /\ \E args \in SendArgPool :
         /\ xfer_args' = args
         /\ IF s_can = "NULL" \/ args.data = "NULL" \/ args.dlc > 8
            THEN /\ xfer_ret' = HAL_ERROR
                 /\ UNCHANGED <<xfer_pc, xfer_start>>
            ELSE /\ xfer_ret' = "none"
                 /\ xfer_pc' = "send_wait"
                 /\ xfer_start' = tick
    /\ calls_made' = calls_made + 1
    /\ wait_ms' = 0
    /\ UNCHANGED <<tx_mailboxes, rx_fifo, rx_header, out_std_id, out_dlc, out_data,
                   out_spill>>

(* CAN_Module_Send_Std: the evaluation of the wait loop that leaves it, and *)
(* the rest of the function.  An evaluation that keeps waiting changes      *)
(* nothing.  addRet is the status of HAL_CAN_AddTxMessage.                  *)
CAN_Module_Send_Std_Return ==
    /\ xfer_pc = "send_wait"
    /\ \E addRet \in {HAL_OK, HAL_ERROR} :
         LET st == wait_for_tx_mailbox(tx_mailboxes, tick, xfer_start,
                                       xfer_args.timeout_ms)
         IN /\ st # "waiting"
            /\ IF st = HAL_TIMEOUT
               THEN xfer_ret' = HAL_TIMEOUT /\ UNCHANGED tx_mailboxes
               ELSE /\ xfer_ret' = addRet
                    /\ tx_mailboxes' =
                          IF addRet = HAL_OK
                          THEN Append(tx_mailboxes, TxFrame(xfer_args.std_id, xfer_args.dlc))
                          ELSE tx_mailboxes
    /\ xfer_pc' = "idle"
    /\ wait_ms' = 0
    /\ UNCHANGED <<rx_fifo, xfer_start, xfer_args, rx_header, out_std_id, out_dlc,
                   out_data, out_spill, calls_made>>

(* CAN_Module_Receive_Std: entry.                                           *)
CAN_Module_Receive_Std_Call ==
    /\ xfer_pc = "idle"
    /\ calls_made < MaxCalls
    /\ \E args \in RecvArgPool :
         /\ xfer_args' = args
         /\ IF s_can = "NULL" \/ args.ptrs = "NULL"
            THEN /\ xfer_ret' = HAL_ERROR
                 /\ UNCHANGED <<xfer_pc, xfer_start>>
            ELSE /\ xfer_ret' = "none"
                 /\ xfer_pc' = "recv_wait"
                 /\ xfer_start' = tick
    /\ calls_made' = calls_made + 1
    /\ wait_ms' = 0
    /\ UNCHANGED <<tx_mailboxes, rx_fifo, rx_header, out_std_id, out_dlc, out_data,
                   out_spill>>

(* CAN_Module_Receive_Std: the evaluation of the wait loop that leaves it,  *)
(* and the rest of the function.  getOk is the outcome of                   *)
(* HAL_CAN_GetRxMessage, which delivers the frame at the head of the FIFO   *)
(* and releases it.  With a DLC above 8 the memcpy reads behind rx_data and *)
(* writes behind the caller's buffer: the bytes it moves there are any.     *)
CAN_Module_Receive_Std_Return ==
    /\ xfer_pc = "recv_wait"
    /\ LET st == PollLoop(Len(rx_fifo), tick, xfer_start, xfer_args.timeout_ms)
       IN /\ st # "waiting"
          /\ IF st = HAL_TIMEOUT
             THEN /\ xfer_ret' = HAL_TIMEOUT
                  /\ UNCHANGED <<rx_fifo, rx_header, out_std_id, out_dlc, out_data,
                                 out_spill>>
             ELSE \E getOk \in BOOLEAN :
                    IF ~getOk
                    THEN /\ xfer_ret' = HAL_ERROR
                         /\ UNCHANGED <<rx_fifo, rx_header, out_std_id, out_dlc,
                                        out_data, out_spill>>
                    ELSE /\ rx_header' = Head(rx_fifo)
                         /\ rx_fifo' = Tail(rx_fifo)
                         /\ IF Head(rx_fifo).ide # "STD"
                            THEN /\ xfer_ret' = HAL_ERROR
                                 /\ UNCHANGED <<out_std_id, out_dlc, out_data, out_spill>>
                            ELSE /\ xfer_ret' = HAL_OK
                                 /\ out_std_id' = Head(rx_fifo).id % 2048
                                 /\ out_dlc' = Head(rx_fifo).dlc
                                 /\ out_data' = CopyPayload(out_data, Head(rx_fifo).data,
                                                            Head(rx_fifo).dlc)
                                 /\ IF Head(rx_fifo).dlc > 8
                                    THEN out_spill' \in
                                           [1 .. (Head(rx_fifo).dlc - 8) -> StrayBytes]
                                    ELSE UNCHANGED out_spill
    /\ xfer_pc' = "idle"
    /\ wait_ms' = 0
    /\ UNCHANGED <<tx_mailboxes, xfer_start, xfer_args, calls_made>>

(* The controller finishes transmitting the oldest queued frame.            *)
TxComplete ==
    /\ tx_mailboxes # <<>>
    /\ tx_mailboxes' = Tail(tx_mailboxes)
    /\ UNCHANGED <<rx_fifo, xfer_pc, xfer_start, xfer_args, xfer_ret, rx_header,
                   out_std_id, out_dlc, out_data, out_spill, wait_ms, calls_made>>

(* A frame that passed the filters is stored in FIFO0.                      *)
FrameArrives ==
    /\ Len(rx_fifo) < MaxFifo
    /\ \E f \in RxFramePool : rx_fifo' = Append(rx_fifo, f)
    /\ UNCHANGED <<tx_mailboxes, xfer_pc, xfer_start, xfer_args, xfer_ret, rx_header,
                   out_std_id, out_dlc, out_data, out_spill, wait_ms, calls_made>>

(* The SysTick interrupt while a call waits.                                *)
WaitTick ==
    /\ xfer_pc # "idle"
    /\ wait_ms <= MaxTimeout
    /\ tick' = U32Inc(tick)
    /\ wait_ms' = wait_ms + 1
    /\ UNCHANGED <<uptime, tx_mailboxes, rx_fifo, xfer_pc, xfer_start, xfer_args,
                   xfer_ret, rx_header, out_std_id, out_dlc, out_data, out_spill,
                   calls_made>>

(***************************************************************************)
(* Configuration frames and periodic publishing (main.c draft with the     *)
(* callback-table CAN module)                                              *)
(***************************************************************************)

(* The bytes of the float 1.0f in memory (little-endian).                   *)
ScaleOne == <<0, 0, 128, 63>>

(* Payloads of frames sent to the device on CAN_CONFIG_MSG_ID.  Read as     *)
(* commands (com, d1 .. d7): SET_CHANNEL_RANGE of channel 1 with oor_min    *)
(* 0xFFFF and oor_max 0; SET_CHANNEL of channel 9; command code 9;          *)
(* SET_CHANNEL of channel 2; SET_BAUD with baud_enum 7.                     *)
CmdPayloadPool ==
    {<<4, 1, 255, 255, 0, 0, 0, 0>>,
     <<3, 9, 1, 0, 100, 0, 0, 0>>,
     <<9, 0, 0, 0, 0, 0, 0, 0>>,
     <<3, 2, 0, 0, 100, 1, 0, 0>>,
     <<1, 7, 0, 0, 0, 0, 0, 0>>}

(* ConfigRxCallback(header, data): data is the 0-based byte array, here     *)
(* data[i + 1].  Yields the new adcConfigArray[].scale and adcEnabled[].    *)
ConfigRxCallback(cfg, data) ==
    LET ch == data[1]
    IN IF ch < NUM_CHANNELS
       THEN [scale |-> [cfg.scale EXCEPT ![ch] = <<data[2], data[3], data[4], data[5]>>],
             enabled |-> [cfg.enabled EXCEPT ![ch] = (data[6] # 0)]]
       ELSE cfg

(* CAN_Module_RegisterRxCallback(msgId, callback)                           *)
RegisterRxCallback(cbs, msgId, callback) ==
    IF Len(cbs) < MAX_CAN_RX_CALLBACKS
    THEN Append(cbs, [msgId |-> msgId, callback |-> callback])
    ELSE cbs

(* The loop of HAL_CAN_RxFifo0MsgPendingCallback over rxCbs[i .. ].         *)
RECURSIVE Dispatch(_, _, _, _)
Dispatch(cbs, i, frame, cfg) ==
    IF i > Len(cbs) THEN cfg
    ELSE IF cbs[i].msgId = frame.id /\ cbs[i].callback # "NULL"
         THEN Dispatch(cbs, i + 1, frame, ConfigRxCallback(cfg, frame.data))
         ELSE Dispatch(cbs, i + 1, frame, cfg)

(* HAL_CAN_RxFifo0MsgPendingCallback: getOk is the outcome of               *)
(* HAL_CAN_GetRxMessage.                                                    *)
HAL_CAN_RxFifo0MsgPendingCallback ==
    /\ rx_fifo # <<>>
    /\ \E getOk \in BOOLEAN :
         IF ~getOk
         THEN UNCHANGED <<rx_fifo, adcConfigScale, adcEnabled, frames_taken, cmd_seen>>
         ELSE \E cfg \in {Dispatch(rxCbs, 1, Head(rx_fifo),
                                   [scale |-> adcConfigScale, enabled |-> adcEnabled])} :
                /\ rx_fifo' = Tail(rx_fifo)
                /\ adcConfigScale' = cfg.scale
                /\ adcEnabled' = cfg.enabled
                /\ frames_taken' = frames_taken + 1
                /\ cmd_seen' = [name |-> "frame", id |-> Head(rx_fifo).id,
                                data |-> Head(rx_fifo).data]
    /\ UNCHANGED <<rxCbs, lastCanTick, bus_tx>>

(* A handler that leaves its loop after the first matching entry.           *)
RECURSIVE InvokedFirstOnly(_, _, _)
InvokedFirstOnly(cbs, i, frame) ==
    IF i > Len(cbs) THEN <<>>
    ELSE IF cbs[i].msgId = frame.id /\ cbs[i].callback # "NULL"
         THEN <<[entry |-> i, callback |-> cbs[i].callback, header |-> frame.id,
                 data |-> frame.data]>>
         ELSE InvokedFirstOnly(cbs, i + 1, frame)

(* The callbacks the loop of HAL_CAN_RxFifo0MsgPendingCallback calls for    *)
(* frame, in the order it calls them: entry i of rxCbs with the arguments   *)
(* it is given.                                                             *)
RECURSIVE Invoked(_, _, _)
Invoked(cbs, i, frame) ==
    IF i > Len(cbs) THEN <<>>
    ELSE IF cbs[i].msgId = frame.id /\ cbs[i].callback # "NULL"
         THEN <<[entry |-> i, callback |-> cbs[i].callback, header |-> frame.id,
                 data |-> frame.data]>> \o Invoked(cbs, i + 1, frame)
         ELSE Invoked(cbs, i + 1, frame)

(* The handler together with the record of what it did.                     *)
RxHandlerRun ==
    /\ HAL_CAN_RxFifo0MsgPendingCallback
    /\ cb_log' = IF rx_fifo' = rx_fifo
                 THEN [read |-> "failed", calls |-> <<>>]
                 ELSE [read |-> "ok", frame |-> Head(rx_fifo),
                       calls |-> Invoked(rxCbs, 1, Head(rx_fifo))]

RegArgPool ==
    {[msgId |-> CAN_CONFIG_MSG_ID, callback |-> "ConfigRxCallback"],
     [msgId |-> CAN_CONFIG_MSG_ID + 1, callback |-> "ConfigRxCallback"],
     [msgId |-> CAN_CONFIG_MSG_ID, callback |-> "NULL"]}

(* CAN_Module_RegisterRxCallback(msgId, callback)                           *)
CAN_Module_RegisterRxCallback ==
    /\ Len(rxCbs) < MaxRegs
    /\ \E a \in RegArgPool : rxCbs' = RegisterRxCallback(rxCbs, a.msgId, a.callback)
    /\ UNCHANGED <<rx_fifo, adcConfigScale, adcEnabled, lastCanTick, bus_tx, frames_taken,
                   cmd_seen>>

RxIdPool == {CAN_CONFIG_MSG_ID, CAN_CONFIG_MSG_ID + 1, CAN_CONFIG_MSG_ID + 2}

RxPayloadPool == {<<3, 9, 1, 0, 100, 0, 0, 0>>, <<3, 2, 0, 0, 100, 1, 0, 0>>}

(* A standard data frame that the filter banks in force let through is      *)
(* stored in FIFO0.                                                         *)
AcceptedFrameArrives ==
    /\ Len(rx_fifo) < MaxFifo
    /\ frames_taken + Len(rx_fifo) < MaxFrames
    /\ \E id \in RxIdPool, d \in RxPayloadPool :
         rx_fifo' = Append(rx_fifo, [ide |-> "STD", id |-> id, dlc |-> 8, data |-> d])

(* A float that is not a number, as the NAN macro of math.h yields.        *)
NaN == [nan |-> TRUE]

(* One value slot of a published frame: the channel's reading times its     *)
(* scale, or NAN for a disabled channel.                                    *)
PublishedValue(idx) ==
    IF adcEnabled[idx] THEN [ch |-> idx, scale |-> adcConfigScale[idx]] ELSE NaN

PublishedFrame(idx) ==
    [id |-> CAN_MSG_BASE_ID + (idx \div 2), dlc |-> 8,
     data |-> <<PublishedValue(idx), PublishedValue(idx + 1)>>]

(* One round of the main loop's while (1) when a publish is due; a round    *)
(* before that changes nothing.  pollOk is the outcome of ADC_Module_Poll.  *)
MainLoopRound ==
    /\ U32Geq(ElapsedMs(tick, lastCanTick), U32(CAN_SEND_INTERVAL_MS))
    /\ lastCanTick' = tick
    /\ \E pollOk \in BOOLEAN :
         bus_tx' = IF pollOk
                   THEN bus_tx \o [k \in 1 .. (NUM_CHANNELS \div 2) |->
                                      PublishedFrame(2 * (k - 1))]
                   ELSE bus_tx
    /\ UNCHANGED <<adcConfigScale, adcEnabled, rxCbs, frames_taken, cmd_seen>>

(* A frame with identifier CAN_CONFIG_MSG_ID passes filter bank 0 and is    *)
(* stored in FIFO0.                                                         *)
ConfigFrameArrives ==
    /\ Len(rx_fifo) < MaxFifo
    /\ frames_taken + Len(rx_fifo) < MaxFrames
    /\ \E d \in CmdPayloadPool :
         rx_fifo' = Append(rx_fifo, [ide |-> "STD", id |-> CAN_CONFIG_MSG_ID,
                                     dlc |-> 8, data |-> d])

(* The tick moves on by half a publish interval.                            *)
TickJump ==
    /\ uptime < MaxUptime
    /\ uptime' = uptime + 1
    /\ LET lo == tick[2] + (CAN_SEND_INTERVAL_MS \div 2)
       IN tick' = <<(tick[1] + (lo \div HalfWord)) % HalfWord, lo % HalfWord>>

(* The same main loop statement by statement, so that the receive          *)
(* interrupt can come between any two of them.                              *)

(* The top of while (1): the due-check; when due, lastCanTick = now and     *)
(* ADC_Module_Poll is entered.                                              *)
MainLoopTop ==
    /\ main_pc.at = "loop"
    /\ U32Geq(ElapsedMs(tick, lastCanTick), U32(CAN_SEND_INTERVAL_MS))
    /\ lastCanTick' = tick
    /\ main_pc' = [at |-> "poll", i |-> 0]
    /\ UNCHANGED <<adcValues, adcConfigScale, adcEnabled, rxCbs, bus_tx, frames_taken,
                   cmd_seen>>

(* One iteration of the loop of ADC_Module_Poll: convert channel i and      *)
(* store raw * adcConfigs[i].scale; a failing HAL call returns from Poll    *)
(* and nothing is sent this round.                                          *)
PollChannel ==
    /\ main_pc.at = "poll"
    /\ \E halOk \in BOOLEAN :
         IF halOk
         THEN /\ adcValues' = [adcValues EXCEPT ![main_pc.i] =
                                   [ch |-> main_pc.i, scale |-> adcConfigScale[main_pc.i]]]
              /\ main_pc' = IF main_pc.i + 1 < NUM_CHANNELS
                            THEN [at |-> "poll", i |-> main_pc.i + 1]
                            ELSE [at |-> "send", i |-> 0]
         ELSE /\ main_pc' = [at |-> "loop", i |-> 0]
              /\ UNCHANGED adcValues
    /\ UNCHANGED <<adcConfigScale, adcEnabled, rxCbs, lastCanTick, bus_tx, frames_taken,
                   cmd_seen>>

(* v = adcEnabled[idx] ? adcValues[idx] : NAN                               *)
SentValue(idx) == IF adcEnabled[idx] THEN adcValues[idx] ELSE NaN

(* One iteration of the send loop: channels idx and idx + 1 in one frame.   *)
SendPair ==
    /\ main_pc.at = "send"
    /\ bus_tx' = Append(bus_tx,
                        [id |-> CAN_MSG_BASE_ID + (main_pc.i \div 2), dlc |-> 8,
                         data |-> <<SentValue(main_pc.i), SentValue(main_pc.i + 1)>>])
    /\ main_pc' = IF main_pc.i + 2 < NUM_CHANNELS
                  THEN [at |-> "send", i |-> main_pc.i + 2]
                  ELSE [at |-> "loop", i |-> 0]
    /\ UNCHANGED <<adcValues, adcConfigScale, adcEnabled, rxCbs, lastCanTick,
                   frames_taken, cmd_seen>>

(* The (scale, enabled) pair of every channel joins the pairs it has held.  *)
RecordConfiguration ==
    cfg_seen' = [c \in 0 .. (NUM_CHANNELS - 1) |->
                   cfg_seen[c] \cup {[scale |-> adcConfigScale'[c],
                                      enabled |-> adcEnabled'[c]]}]

(***************************************************************************)
(* Signal conditioning and telemetry publishing (process_signals.c)        *)
(*                                                                         *)
(* Voltages are exact rationals here: s_v_pin and s_v_in are counted in    *)
(* units of 1/PS_ADC_FULL_SCALE millivolt, thresholds and offsets in       *)
(* millivolts, gains in tenths.  With these units the products and sums of *)
(* Process_Signals_Update have no remainder.                               *)
(***************************************************************************)
PS_NUM_CHANNELS == 8
PS_ADC_VREF_MV == 3300
PS_ADC_FULL_SCALE == 4095
PS_DEFAULT_MIN_MV == 500
PS_DEFAULT_MAX_MV == 4500
MvSaturation == 65535

PsChannels == 0 .. (PS_NUM_CHANNELS - 1)

(* Contents the DMA controller may leave in the buffer.                     *)
DmaMixed == [c \in PsChannels |-> IF c = 0 THEN 4095 ELSE IF c = 5 THEN 2048 ELSE 0]

DmaPool == {DmaMixed, [c \in PsChannels |-> 4095]}

(* Arguments of Process_Signals_Set_MinMax: (ch, v_min, v_max) in mV.       *)
MinMaxArgPool ==
    { [ch |-> 0, v_min |-> 500, v_max |-> 3300],
      [ch |-> 5, v_min |-> 4500, v_max |-> 500],
      [ch |-> 8, v_min |-> 0, v_max |-> 1000] }

(* Arguments of Process_Signals_Set_GainOffset: gain in tenths, offset mV.  *)
GainOffsetArgPool ==
    { [ch |-> 1, gain |-> 10, offset |-> 500],
      [ch |-> 8, gain |-> 20, offset |-> -500] }

(* Arguments of Process_Signals_Set_Divider, in ohms.                       *)
DividerArgPool ==
    { [ch |-> 5, r_top |-> 10000, r_bottom |-> 10000],
      [ch |-> 0, r_top |-> 10000, r_bottom |-> 0],
      [ch |-> 1, r_top |-> 30000, r_bottom |-> 10000],
      [ch |-> 1, r_top |-> 30000, r_bottom |-> -10000],
      [ch |-> 8, r_top |-> 10000, r_bottom |-> 10000] }

(* period_ms and timeout_ms handed to Process_Signals_Send_Can_If_Due.      *)
PeriodPool == {2}

PubTimeoutPool == {0, 1}

(* Node identifiers handed to CAN_Module_Set_Node_Id.                       *)
NodeIdPool == {16}

U32Add(a, k) ==
    LET lo == a[2] + k
    IN <<(a[1] + (lo \div HalfWord)) % HalfWord, lo % HalfWord>>

(* adc_raw_to_vpin(raw) = PS_ADC_VREF_V * raw / PS_ADC_FULL_SCALE           *)
adc_raw_to_vpin(raw) == PS_ADC_VREF_MV * raw

(* vin = gain * vpin + offset                                               *)
DeviceInput(cal, vpin) == ((cal.gain * vpin) \div 10) + (cal.offset * PS_ADC_FULL_SCALE)

(* volts_to_mV_u16(v): 0 at or below 0 V, 65535 at or above 65.535 V, else  *)
(* (uint16_t)(mv + 0.5f).                                                   *)
volts_to_mV_wrapping(v) ==
    IF v <= 0 THEN 0
    ELSE (((2 * v) + PS_ADC_FULL_SCALE) \div (2 * PS_ADC_FULL_SCALE)) % 65536
volts_to_mV_u16(v) ==
    IF v <= 0 THEN 0
    ELSE IF v >= MvSaturation * PS_ADC_FULL_SCALE THEN MvSaturation
    ELSE ((2 * v) + PS_ADC_FULL_SCALE) \div (2 * PS_ADC_FULL_SCALE)

(* put_u16_be(buf, v)                                                       *)
put_u16_be(v) == <<(v \div 256) % 256, v % 256>>

(* The test of Process_Signals_Update: vin < v_min || vin > v_max.          *)
OutOfRangeExclusive(cal, vin) ==
    \/ vin <= cal.v_min * PS_ADC_FULL_SCALE
    \/ vin >= cal.v_max * PS_ADC_FULL_SCALE
OutOfRange(cal, vin) ==
    \/ vin < cal.v_min * PS_ADC_FULL_SCALE
    \/ vin > cal.v_max * PS_ADC_FULL_SCALE

(* The second loop of Process_Signals_Update from channel i on: the bits    *)
(* it ORs into mask.                                                        *)
RECURSIVE UpdateMask(_, _, _)
UpdateMask(i, cal, vin) ==
    IF i >= PS_NUM_CHANNELS THEN 0
    ELSE (IF OutOfRange(cal[i], vin[i]) THEN 2 ^ i ELSE 0) + UpdateMask(i + 1, cal, vin)

(* Process_Signals_Update(): snapshot of the buffer, then the conversions.  *)
UpdateBody(cal, dma) ==
    LET raw == [c \in PsChannels |-> dma[c]]
        vpin == [c \in PsChannels |-> adc_raw_to_vpin(raw[c])]
        vin == [c \in PsChannels |-> DeviceInput(cal[c], vpin[c])]
    IN [raw |-> raw, v_pin |-> vpin, v_in |-> vin,
        v_in_mV |-> [c \in PsChannels |-> volts_to_mV_u16(vin[c])],
        mask |-> UpdateMask(0, cal, vin)]

(* Process_Signals_Init(): the defaults of every channel.                   *)
PsDefaultCal ==
    [gain |-> 10, offset |-> 0, v_min |-> PS_DEFAULT_MIN_MV, v_max |-> PS_DEFAULT_MAX_MV]

(* CAN_Module_Send_Std(std_id, data, dlc, timeout_ms) as one call, data not *)
(* NULL.  x carries the mailboxes, the tick, the ticks taken and the frames *)
(* accepted so far.  With no free mailbox at entry, 'waited' is the number  *)
(* of milliseconds after which the controller frees one; none is freed      *)
(* within the timeout when waited = timeout_ms.  addRet  is the status of   *)
(* HAL_CAN_AddTxMessage.                                                    *)
SendStdBody(x, can, std_id, data, dlc, timeout_ms, waited, addRet) ==
    IF can = "NULL" \/ dlc > 8 THEN [x EXCEPT !.st = HAL_ERROR]
    ELSE LET full == TxFreeLevel(x.mb) = 0
             freed == full /\ waited < timeout_ms
             spent == IF full THEN Min(waited, timeout_ms) ELSE 0
             mbAt == IF freed THEN Tail(x.mb) ELSE x.mb
             nowAt == U32Add(x.now, spent)
             st == wait_for_tx_mailbox(mbAt, nowAt, x.now, timeout_ms)
             y == [x EXCEPT !.mb = mbAt, !.now = nowAt, !.up = @ + spent]
             frame == [TxFrame(std_id, dlc) EXCEPT !.data = SubSeq(data, 1, dlc)]
         IN IF st # "ready" THEN [y EXCEPT !.st = st]
            ELSE IF addRet # HAL_OK THEN [y EXCEPT !.st = HAL_ERROR]
            ELSE [y EXCEPT !.st = HAL_OK, !.mb = Append(@, frame),
                           !.sent = Append(@, frame)]

(* The payload of frame 1 (first = 0) and of frame 2 (first = 4).           *)
MvFrame(mv, first) ==
    put_u16_be(mv[first]) \o put_u16_be(mv[first + 1]) \o
    put_u16_be(mv[first + 2]) \o put_u16_be(mv[first + 3])

(* A publish that sends the second frame whatever became of the first.      *)
SendCanBodyRegardless(x, can, node_id, mv, timeout_ms, w1, add1, w2, add2) ==
    LET id1 == (node_id + 1) % 65536
        id2 == (node_id + 2) % 65536
        r1 == SendStdBody(x, can, id1, MvFrame(mv, 0), 8, timeout_ms, w1, add1)
    IN SendStdBody(r1, can, id2, MvFrame(mv, 4), 8, timeout_ms, w2, add2)

(* Process_Signals_Send_Can(timeout_ms)                                     *)
SendCanBody(x, can, node_id, mv, timeout_ms, w1, add1, w2, add2) ==
    LET id1 == (node_id + 1) % 65536
        id2 == (node_id + 2) % 65536
        r1 == SendStdBody(x, can, id1, MvFrame(mv, 0), 8, timeout_ms, w1, add1)
    IN IF r1.st # HAL_OK THEN r1
       ELSE SendStdBody(r1, can, id2, MvFrame(mv, 4), 8, timeout_ms, w2, add2)

(* (now - s_last_send_tick) < period_ms                                     *)
NotDueOffByOne(now, last, period_ms) ==
    ~U32Geq(U32Inc(ElapsedMs(now, last)), U32(period_ms))
NotDueFromBoot(now, last, period_ms) == ~U32Geq(now, U32(period_ms))
NotDue(now, last, period_ms) == ~U32Geq(ElapsedMs(now, last), U32(period_ms))

PsCall(op) ==
    /\ ps_calls < MaxPsCalls
    /\ ps_calls' = ps_calls + 1
    /\ ps_op' = op

(* Process_Signals_Init()                                                   *)
Process_Signals_Init ==
    /\ PsCall([name |-> "init"])
    /\ s_cal' = [c \in PsChannels |-> PsDefaultCal]
    /\ ps_raw' = [c \in PsChannels |-> 0]
    /\ s_v_pin' = [c \in PsChannels |-> 0]
    /\ s_v_in' = [c \in PsChannels |-> 0]
    /\ s_v_in_mV' = [c \in PsChannels |-> 0]
    /\ s_oor_mask' = 0
    /\ s_last_send_tick' = tick
    /\ ps_ret' = "none"
    /\ UNCHANGED <<s_node_id, dma_buf, pub_sent, pub_attempts>>

PsInstallUpdate(u) ==
    /\ ps_raw' = u.raw
    /\ s_v_pin' = u.v_pin
    /\ s_v_in' = u.v_in
    /\ s_v_in_mV' = u.v_in_mV
    /\ s_oor_mask' = u.mask

(* Process_Signals_Update()                                                 *)
Process_Signals_Update ==
    /\ PsCall([name |-> "update"])
    /\ \E u \in {UpdateBody(s_cal, dma_buf)} : PsInstallUpdate(u)
    /\ ps_ret' = "none"
    /\ UNCHANGED <<s_cal, s_last_send_tick, s_node_id, dma_buf, pub_sent, pub_attempts>>

(* Process_Signals_Set_MinMax(ch, v_min, v_max)                             *)
Process_Signals_Set_MinMax ==
    \E a \in MinMaxArgPool :
       /\ PsCall([name |-> "set_minmax", arg |-> a])
       /\ s_cal' = IF a.ch >= PS_NUM_CHANNELS THEN s_cal
                   ELSE [s_cal EXCEPT ![a.ch].v_min = a.v_min, ![a.ch].v_max = a.v_max]
       /\ ps_ret' = "none"
       /\ UNCHANGED <<ps_raw, s_v_pin, s_v_in, s_v_in_mV, s_oor_mask, s_last_send_tick,
                      s_node_id, dma_buf, pub_sent, pub_attempts>>

(* The body of Process_Signals_Set_Divider: the gain, in tenths, is        *)
(* (r_top + r_bottom) / r_bottom.                                           *)
SetDividerKeepingOffset(cal, ch, r_top, r_bottom) ==
    IF ch >= PS_NUM_CHANNELS \/ r_bottom <= 0 THEN cal
    ELSE [cal EXCEPT ![ch].gain = ((r_top + r_bottom) * 10) \div r_bottom]
SetDividerBody(cal, ch, r_top, r_bottom) ==
    IF ch >= PS_NUM_CHANNELS THEN cal
    ELSE IF r_bottom <= 0 THEN cal
    ELSE [cal EXCEPT ![ch].gain = ((r_top + r_bottom) * 10) \div r_bottom,
                     ![ch].offset = 0]

(* Process_Signals_Set_Divider(ch, r_top_ohm, r_bottom_ohm)                 *)
Process_Signals_Set_Divider ==
    \E a \in DividerArgPool :
       /\ PsCall([name |-> "set_divider", arg |-> a])
       /\ s_cal' = SetDividerBody(s_cal, a.ch, a.r_top, a.r_bottom)
       /\ ps_ret' = "none"
       /\ UNCHANGED <<ps_raw, s_v_pin, s_v_in, s_v_in_mV, s_oor_mask, s_last_send_tick,
                      s_node_id, dma_buf, pub_sent, pub_attempts>>

(* Process_Signals_Set_GainOffset(ch, gain, offset)                         *)
Process_Signals_Set_GainOffset ==
    \E a \in GainOffsetArgPool :
       /\ PsCall([name |-> "set_gainoffset", arg |-> a])
       /\ s_cal' = IF a.ch >= PS_NUM_CHANNELS THEN s_cal
                   ELSE [s_cal EXCEPT ![a.ch].gain = a.gain, ![a.ch].offset = a.offset]
       /\ ps_ret' = "none"
       /\ UNCHANGED <<ps_raw, s_v_pin, s_v_in, s_v_in_mV, s_oor_mask, s_last_send_tick,
                      s_node_id, dma_buf, pub_sent, pub_attempts>>

(* Process_Signals_Send_Can_If_Due(period_ms, timeout_ms)                   *)
Process_Signals_Send_Can_If_Due ==
    \E period_ms \in PeriodPool, timeout_ms \in PubTimeoutPool :
    \E w1 \in 0 .. timeout_ms, w2 \in 0 .. timeout_ms,
       add1 \in {HAL_OK, HAL_ERROR}, add2 \in {HAL_OK, HAL_ERROR} :
       /\ PsCall([name |-> "send_if_due", period_ms |-> period_ms,
                  timeout_ms |-> timeout_ms])
       /\ IF NotDue(tick, s_last_send_tick, period_ms)
          THEN /\ ps_ret' = HAL_BUSY
               /\ pub_sent' = <<>>
               /\ UNCHANGED <<s_cal, ps_raw, s_v_pin, s_v_in, s_v_in_mV, s_oor_mask,
                              s_last_send_tick, s_node_id, dma_buf, pub_attempts,
                              tick, uptime, tx_mailboxes>>
          ELSE \E u \in {UpdateBody(s_cal, dma_buf)} :
               \E r \in {SendCanBody([st |-> HAL_OK, mb |-> tx_mailboxes, now |-> tick,
                                      up |-> uptime, sent |-> <<>>],
                                     s_can, s_node_id, u.v_in_mV, timeout_ms,
                                     w1, add1, w2, add2)} :
                  /\ r.up <= MaxUptime
                  /\ s_last_send_tick' = tick
                  /\ PsInstallUpdate(u)
                  /\ ps_ret' = r.st
                  /\ pub_sent' = r.sent
                  /\ pub_attempts' = Append(pub_attempts,
                                            [up |-> uptime, period_ms |-> period_ms,
                                             st |-> r.st])
                  /\ tx_mailboxes' = r.mb
                  /\ tick' = r.now
                  /\ uptime' = r.up
                  /\ UNCHANGED <<s_cal, s_node_id, dma_buf>>

(* CAN_Module_Set_Node_Id(node_id)                                          *)
CAN_Module_Set_Node_Id ==
    /\ PsCall([name |-> "set_node_id"])
    /\ \E node_id \in NodeIdPool : s_node_id' = node_id
    /\ ps_ret' = "none"
    /\ UNCHANGED <<s_cal, ps_raw, s_v_pin, s_v_in, s_v_in_mV, s_oor_mask,
                   s_last_send_tick, dma_buf, pub_sent, pub_attempts>>

(* The DMA controller stores new conversions in the buffer.                 *)
DmaWrite ==
    /\ \E b \in DmaPool : dma_buf' = b
    /\ dma_buf' # dma_buf
    /\ UNCHANGED <<s_cal, ps_raw, s_v_pin, s_v_in, s_v_in_mV, s_oor_mask,
                   s_last_send_tick, s_node_id, ps_op, ps_ret, ps_calls, pub_sent,
                   pub_attempts>>

(***************************************************************************)
(* Static initial state of each part                                       *)
(***************************************************************************)
AcqStaticInit == AcqIs(AcqStatic)

CanStaticInit ==
    /\ s_can = "NULL"
    /\ s_baud_enum = 2
    /\ s_filter_ids = [i \in 1 .. CAN_MODULE_MAX_FILTER_IDS |-> 0]
    /\ s_filter_id_count = 0
    /\ can_timing = [prescaler |-> 16, sjw |-> 1, bs1 |-> 1, bs2 |-> 1]
    /\ can_started = FALSE
    /\ filter_banks = [b \in Banks |-> BankOff]
    /\ can_steps = <<>>
    /\ can_op = [name |-> "none"]
    /\ can_ret = "none"

XferStaticInit ==
    /\ tx_mailboxes = <<>>
    /\ rx_fifo = <<>>
    /\ xfer_pc = "idle"
    /\ xfer_start = <<0, 0>>
    /\ xfer_args = [name |-> "none"]
    /\ xfer_ret = "none"
    /\ rx_header = [ide |-> "none"]
    /\ out_std_id = 0
    /\ out_dlc = 0
    /\ out_data = <<0, 0, 0, 0, 0, 0, 0, 0>>
    /\ out_spill = <<>>
    /\ wait_ms = 0
    /\ calls_made = 0

CmdStaticInit ==
    /\ adcConfigScale = [c \in 0 .. (NUM_CHANNELS - 1) |-> <<0, 0, 0, 0>>]
    /\ adcEnabled = [c \in 0 .. (NUM_CHANNELS - 1) |-> FALSE]
    /\ rxCbs = <<>>
    /\ lastCanTick = <<0, 0>>
    /\ bus_tx = <<>>
    /\ frames_taken = 0
    /\ cmd_seen = [name |-> "none"]

PsStaticInit ==
    /\ s_cal = [c \in PsChannels |-> [gain |-> 0, offset |-> 0, v_min |-> 0, v_max |-> 0]]
    /\ ps_raw = [c \in PsChannels |-> 0]
    /\ s_v_pin = [c \in PsChannels |-> 0]
    /\ s_v_in = [c \in PsChannels |-> 0]
    /\ s_v_in_mV = [c \in PsChannels |-> 0]
    /\ s_oor_mask = 0
    /\ s_last_send_tick = <<0, 0>>
    /\ s_node_id = 0
    /\ dma_buf = [c \in PsChannels |-> 0]
    /\ ps_op = [name |-> "none"]
    /\ ps_ret = "none"
    /\ ps_calls = 0
    /\ pub_sent = <<>>
    /\ pub_attempts = <<>>

PureStaticInit ==
    /\ fn_call = [name |-> "none"]
    /\ fn_result = 0
    /\ fn_prev = <<[name |-> "none"], 0>>

ScanObsStaticInit ==
    /\ last_conv = NoChannel
    /\ api_calls = 0

LoopStaticInit ==
    /\ main_pc = [at |-> "loop", i |-> 0]
    /\ adcValues = [c \in 0 .. (NUM_CHANNELS - 1) |-> 0]
    /\ cfg_seen = [c \in 0 .. (NUM_CHANNELS - 1) |-> {}]

ObsStaticInit ==
    /\ cb_log = [read |-> "none"]
    /\ ever_enabled = {}
    /\ cycle_up = 0
    /\ send_up = 0

ApiStaticInit ==
    /\ acq_call = [name |-> "none"]
    /\ PureStaticInit
    /\ ScanObsStaticInit
    /\ LoopStaticInit
    /\ ObsStaticInit

(***************************************************************************)
(* The transport layer's configuration calls in any order, with every      *)
(* outcome of the hardware steps.                                          *)
(***************************************************************************)
CanInit ==
    /\ tick = <<0, 0>>
    /\ uptime = 0
    /\ PsStaticInit
    /\ ApiStaticInit
    /\ AcqStaticInit
    /\ CanStaticInit
    /\ XferStaticInit
    /\ CmdStaticInit

CanModuleInit == CAN_Module_Init /\ UNCHANGED <<psVars, apiVars, clockVars, acqVars, xferVars, cmdVars>>

CanUpdateBaud == CAN_Module_Update_Baud /\ UNCHANGED <<psVars, apiVars, clockVars, acqVars, xferVars, cmdVars>>

CanUpdateFilters ==
    CAN_Module_Update_StdId_Filters /\ UNCHANGED <<psVars, apiVars, clockVars, acqVars, xferVars, cmdVars>>

CanNext == CanModuleInit \/ CanUpdateBaud \/ CanUpdateFilters

CanSpec == CanInit /\ [][CanNext]_vars

(***************************************************************************)
(* The acquisition engine run as the integration notes prescribe:           *)
(* ADC_Module_Init, then ADC_Module_Set_Enable_Mask, then ADC_Module_Task   *)
(* called from the main loop, with a healthy converter and a mask that is   *)
(* not changed afterwards.                                                  *)
(***************************************************************************)
FixedMaskInit ==
    /\ tick \in TickStarts
    /\ uptime = 0
    /\ PsStaticInit
    /\ ApiStaticInit
    /\ \E hz \in InitRatePool, mask \in MaskPool :
          AcqIs(SetEnableMaskBody(InitBody(AcqStatic, 3300, hz, tick), mask))
    /\ CanStaticInit
    /\ XferStaticInit
    /\ CmdStaticInit

FixedMaskTask ==
    ADC_Module_Task(TRUE, TRUE, TRUE, TRUE) /\ UNCHANGED <<psVars, apiVars, canVars, xferVars, cmdVars>>

FixedMaskConversionDone == AdcConversionDone /\ UNCHANGED <<psVars, apiVars, canVars, xferVars, cmdVars>>

FixedMaskTick == TickAdvance /\ UNCHANGED <<psVars, apiVars, acqVars, canVars, xferVars, cmdVars>>

FixedMaskNext == FixedMaskTask \/ FixedMaskConversionDone \/ FixedMaskTick

(* The main loop calls ADC_Module_Task again and again, and every started   *)
(* conversion completes.                                                    *)
FixedMaskSpec ==
    /\ FixedMaskInit
    /\ [][FixedMaskNext]_vars
    /\ WF_vars(FixedMaskTask)
    /\ WF_vars(FixedMaskConversionDone)

(***************************************************************************)
(* Send and receive calls from the main loop against a controller whose    *)
(* mailboxes drain and whose FIFO fills at any time.  A waiting call keeps  *)
(* evaluating its loop and the tick interrupt keeps running.               *)
(***************************************************************************)
XferInit ==
    /\ tick \in {<<0, 0>>, <<HalfWord - 1, HalfWord - 1>>}
    /\ uptime = 0
    /\ PsStaticInit
    /\ ApiStaticInit
    /\ AcqStaticInit
    /\ CmdStaticInit
    /\ can_op = [name |-> "init"]
    /\ \E ok \in BOOLEAN :
         LET r == CanInitBody([can |-> "NULL", baud |-> 2,
                               ids |-> [i \in 1 .. CAN_MODULE_MAX_FILTER_IDS |-> 0],
                               count |-> 0,
                               timing |-> [prescaler |-> 16, sjw |-> 1, bs1 |-> 1, bs2 |-> 1],
                               started |-> FALSE,
                               banks |-> [b \in Banks |-> BankOff],
                               steps |-> <<>>], 2, TRUE, FALSE, TRUE, TRUE)
         IN IF ok
            THEN /\ s_can = r.c.can /\ s_baud_enum = r.c.baud /\ s_filter_ids = r.c.ids
                 /\ s_filter_id_count = r.c.count /\ can_timing = r.c.timing
                 /\ can_started = r.c.started /\ filter_banks = r.c.banks
                 /\ can_steps = r.c.steps /\ can_ret = r.st
            ELSE /\ s_can = "NULL" /\ s_baud_enum = 2
                 /\ s_filter_ids = [i \in 1 .. CAN_MODULE_MAX_FILTER_IDS |-> 0]
                 /\ s_filter_id_count = 0
                 /\ can_timing = [prescaler |-> 16, sjw |-> 1, bs1 |-> 1, bs2 |-> 1]
                 /\ can_started = FALSE /\ filter_banks = [b \in Banks |-> BankOff]
                 /\ can_steps = <<>> /\ can_ret = HAL_ERROR
    /\ tx_mailboxes = <<QueuedFrame, QueuedFrame, QueuedFrame>>
    /\ rx_fifo = <<>>
    /\ xfer_pc = "idle"
    /\ xfer_start = <<0, 0>>
    /\ xfer_args = [name |-> "none"]
    /\ xfer_ret = "none"
    /\ rx_header = [ide |-> "none"]
    /\ out_std_id = 0
    /\ out_dlc = 0
    /\ out_data = <<0, 0, 0, 0, 0, 0, 0, 0>>
    /\ out_spill = <<>>
    /\ wait_ms = 0
    /\ calls_made = 0

XferSendCall == CAN_Module_Send_Std_Call /\ UNCHANGED <<psVars, apiVars, clockVars, acqVars, canVars, cmdVars>>

XferSendReturn ==
    CAN_Module_Send_Std_Return /\ UNCHANGED <<psVars, apiVars, clockVars, acqVars, canVars, cmdVars>>

XferRecvCall ==
    CAN_Module_Receive_Std_Call /\ UNCHANGED <<psVars, apiVars, clockVars, acqVars, canVars, cmdVars>>

XferRecvReturn ==
    CAN_Module_Receive_Std_Return /\ UNCHANGED <<psVars, apiVars, clockVars, acqVars, canVars, cmdVars>>

XferTxComplete == TxComplete /\ UNCHANGED <<psVars, apiVars, clockVars, acqVars, canVars, cmdVars>>

XferFrameArrives == FrameArrives /\ UNCHANGED <<psVars, apiVars, clockVars, acqVars, canVars, cmdVars>>

XferTick == WaitTick /\ UNCHANGED <<psVars, apiVars, acqVars, canVars, cmdVars>>

XferNext ==
    \/ XferSendCall
    \/ XferSendReturn
    \/ XferRecvCall
    \/ XferRecvReturn
    \/ XferTxComplete
    \/ XferFrameArrives
    \/ XferTick

XferSpec ==
    /\ XferInit
    /\ [][XferNext]_vars
    /\ WF_vars(XferSendReturn \/ XferRecvReturn)
    /\ WF_vars(XferTick)

(***************************************************************************)
(* The configuration calls of the acquisition engine in any order and with *)
(* any arguments, from the module's static state.                          *)
(***************************************************************************)
RateInit ==
    /\ tick = <<0, 0>>
    /\ uptime = 0
    /\ AcqStaticInit
    /\ CanStaticInit
    /\ XferStaticInit
    /\ CmdStaticInit
    /\ PsStaticInit
    /\ ApiStaticInit

rateRest == <<clockVars, canVars, xferVars, cmdVars, psVars, pureVars, scanObsVars,
              loopVars, obsVars>>

RateModuleInit == ADC_Module_Init /\ UNCHANGED rateRest

RateSetSampleRate == ADC_Module_Set_Sample_Rate /\ UNCHANGED rateRest

RateSetEnableMask == ADC_Module_Set_Enable_Mask /\ UNCHANGED rateRest

RateNext == RateModuleInit \/ RateSetSampleRate \/ RateSetEnableMask

RateSpec == RateInit /\ [][RateNext]_vars

(***************************************************************************)
(* The acquisition engine driven by the main loop while the converter may  *)
(* report a fault at any channel selection or start, and while the         *)
(* application reconfigures the engine between two calls of the task.       *)
(***************************************************************************)

(* What the HAL reports at a channel selection and start: success, a        *)
(* failing HAL_ADC_ConfigChannel, or a failing HAL_ADC_Start.               *)
FaultPool == {"none", "select", "start"}

(* HAL_ADC_PollForConversion(s_adc, 0) returns HAL_OK in                    *)
(* service_conversion_state.                                                *)
ServiceCompletes(a) == a.conv = 1 /\ a.adc # "NULL" /\ a.hw = "eoc"

(* The due-check of ADC_Module_Task.                                        *)
CycleDue(a, now) == U32Geq(ElapsedMs(now, a.cycle_start), U32(a.interval))

(* Enable masks in force when the window opens: channels 1 and 2, and      *)
(* channels 0 and 4.                                                        *)
ScanMaskPool == {6, 17}

(* Arguments of the configuration calls made while the engine runs.         *)
ScanEnableArgPool ==
    { [channel_index |-> 0, enable |-> 0], [channel_index |-> 2, enable |-> 0] }

ScanMaskArgPool == {0}

ScanHzPool == {2, 2000}

ScanInit ==
    /\ tick = <<HalfWord - 1, HalfWord - 3>>
    /\ uptime = 0
    /\ PsStaticInit
    /\ ApiStaticInit
    /\ \E hz \in InitRatePool, mask \in ScanMaskPool :
          AcqIs(SetEnableMaskBody(InitBody(AcqStatic, 3300, hz, tick), mask))
    /\ CanStaticInit
    /\ XferStaticInit
    /\ CmdStaticInit

scanRest == <<canVars, xferVars, cmdVars, psVars, pureVars, loopVars, obsVars>>

(* One call of ADC_Module_Task.  acq_call records the channel whose         *)
(* conversion the call found complete (stored), the fault the HAL           *)
(* reported at the start after a completed conversion (svc_fault) and at    *)
(* the start that opens a cycle (open_fault), "none" where no start was     *)
(* attempted.                                                               *)
ScanTask ==
    \E f1 \in FaultPool, f2 \in FaultPool :
       LET a == AcqNow
           a1 == service_conversion_state(a, f1 # "select", f1 # "start")
           svcStart == ServiceCompletes(a) /\ EnabledChannels(a.mask) # {}
           openStart == a1.scan = 0 /\ CycleDue(a1, tick) /\ EnabledChannels(a1.mask) # {}
       IN /\ ADC_Module_Task(f1 # "select", f1 # "start", f2 # "select", f2 # "start")
          /\ acq_call' = [name |-> "task",
                          stored |-> IF ServiceCompletes(a) THEN a.active ELSE NoChannel,
                          svc_fault |-> IF svcStart THEN f1 ELSE "none",
                          open_fault |-> IF openStart THEN f2 ELSE "none"]
          /\ last_conv' = IF ServiceCompletes(a) /\ a.active < ADC_MODULE_CHANNEL_COUNT
                          THEN a.active ELSE last_conv
          /\ UNCHANGED <<api_calls, scanRest>>

ScanConversionDone == AdcConversionDone /\ UNCHANGED <<apiVars, scanRest>>

ScanTick == TickAdvance /\ UNCHANGED <<acqVars, apiVars, scanRest>>

ScanApiCall ==
    /\ api_calls < MaxApiCalls
    /\ api_calls' = api_calls + 1
    /\ UNCHANGED <<last_conv, clockVars, scanRest>>

ScanEnableChannel ==
    /\ \E arg \in ScanEnableArgPool : EnableChannelCall(arg)
    /\ ScanApiCall

ScanSetEnableMask ==
    /\ \E enable_mask \in ScanMaskArgPool : SetEnableMaskCall(enable_mask)
    /\ ScanApiCall

ScanSetSampleRate ==
    /\ \E sample_hz \in ScanHzPool : SetSampleRateCall(sample_hz)
    /\ ScanApiCall

ScanNext ==
    \/ ScanTask
    \/ ScanConversionDone
    \/ ScanTick
    \/ ScanEnableChannel
    \/ ScanSetEnableMask
    \/ ScanSetSampleRate

ScanSpec == ScanInit /\ [][ScanNext]_vars

(***************************************************************************)
(* The engine from ADC_Module_Init on, all channels disabled, with         *)
(* channels enabled and disabled while it runs.                            *)
(***************************************************************************)
MaskEnableArgPool ==
    {[channel_index |-> 1, enable |-> 1], [channel_index |-> 1, enable |-> 0],
     [channel_index |-> 8, enable |-> 1]}

MaskArgPool == {0, 5}

MaskInit ==
    /\ tick = <<0, 0>>
    /\ uptime = 0
    /\ PsStaticInit
    /\ ApiStaticInit
    /\ AcqIs(InitBody(AcqStatic, 3300, 1000, tick))
    /\ CanStaticInit
    /\ XferStaticInit
    /\ CmdStaticInit

(* A call that may change the enable mask.                                  *)
MaskApiCall ==
    /\ api_calls < MaxMaskCalls
    /\ api_calls' = api_calls + 1
    /\ ever_enabled' = ever_enabled \cup EnabledChannels(s_enable_mask')
    /\ UNCHANGED <<last_conv, clockVars, canVars, xferVars, cmdVars, psVars, pureVars,
                   loopVars, cb_log, timeObs>>

MaskEnableChannel ==
    /\ \E arg \in MaskEnableArgPool : EnableChannelCall(arg)
    /\ MaskApiCall

MaskSetEnableMask ==
    /\ \E enable_mask \in MaskArgPool : SetEnableMaskCall(enable_mask)
    /\ MaskApiCall

MaskNext ==
    \/ ScanTask
    \/ ScanConversionDone
    \/ ScanTick
    \/ MaskEnableChannel
    \/ MaskSetEnableMask

MaskSpec == MaskInit /\ [][MaskNext]_vars

(***************************************************************************)
(* The helper functions applied on their own to arguments around every     *)
(* boundary of their domains.                                              *)
(***************************************************************************)

(* Voltages handed to volts_to_mV_u16, in units of 1/PS_ADC_FULL_SCALE mV:  *)
(* around 0 V, around the defaults, around the middle and the top of the    *)
(* 16-bit range and beyond it, each with its neighbours up to half a        *)
(* millivolt on either side.                                                *)
VoltPool ==
    { (mv * PS_ADC_FULL_SCALE) + d :
        mv \in {-1, 0, 1, 2, 499, 500, 3300, 32767, 32768, 65534, 65535, 65536,
                65537, 131071, 131072},
        d \in {-2048, -2047, -1, 0, 1, 2047, 2048} }

(* Selectors handed to set_bit_timing_for_baud.                             *)
SelectorPool == {0, 1, 2, 3, 4, 7, 255}

PureApply(call, result) ==
    /\ fn_call' = call
    /\ fn_result' = result
    /\ fn_prev' = <<fn_call, fn_result>>
    /\ UNCHANGED <<clockVars, acqVars, canVars, xferVars, cmdVars, psVars, acq_call,
                   scanObsVars, loopVars, obsVars>>

ApplyVoltsToMv ==
    \E v \in VoltPool :
       PureApply([name |-> "volts_to_mV_u16", v |-> v], volts_to_mV_u16(v))

ApplySetBitTiming ==
    \E baud_enum \in SelectorPool :
       PureApply([name |-> "set_bit_timing_for_baud", baud_enum |-> baud_enum],
                 set_bit_timing_for_baud(baud_enum))

PureNext == ApplyVoltsToMv \/ ApplySetBitTiming

PureSpec == RateInit /\ [][PureNext]_vars

(***************************************************************************)
(* Signal conditioning and publishing after start-up: the transport is     *)
(* initialised at 500 kbps and its mailboxes hold earlier frames,          *)
(* Process_Signals_Init has run, the acquisition engine has channels 0     *)
(* and 4 enabled.  The main loop calls the Process_Signals API in any      *)
(* order while the DMA controller refreshes the buffer, the tick runs and  *)
(* the mailboxes drain.                                                    *)
(***************************************************************************)
CanStatic ==
    [can |-> "NULL", baud |-> 2,
     ids |-> [i \in 1 .. CAN_MODULE_MAX_FILTER_IDS |-> 0], count |-> 0,
     timing |-> [prescaler |-> 16, sjw |-> 1, bs1 |-> 1, bs2 |-> 1],
     started |-> FALSE, banks |-> [b \in Banks |-> BankOff], steps |-> <<>>]

xferNoMb == <<rx_fifo, xfer_pc, xfer_start, xfer_args, xfer_ret, rx_header,
              out_std_id, out_dlc, out_data, out_spill, wait_ms, calls_made>>

PubInit ==
    /\ tick \in {<<0, 0>>, <<HalfWord - 1, HalfWord - 1>>}
    /\ uptime = 0
    /\ AcqIs(SetEnableMaskBody(InitBody(AcqStatic, 3300, ADC_MODULE_DEFAULT_RATE_HZ, tick), 17))
    /\ CmdStaticInit
    /\ ApiStaticInit
    /\ can_op = [name |-> "init"]
    /\ \E r \in {CanInitBody(CanStatic, 2, TRUE, FALSE, TRUE, TRUE)} :
         /\ s_can = r.c.can /\ s_baud_enum = r.c.baud /\ s_filter_ids = r.c.ids
         /\ s_filter_id_count = r.c.count /\ can_timing = r.c.timing
         /\ can_started = r.c.started /\ filter_banks = r.c.banks
         /\ can_steps = r.c.steps /\ can_ret = r.st
    /\ tx_mailboxes = <<QueuedFrame, QueuedFrame, QueuedFrame>>
    /\ rx_fifo = <<>>
    /\ xfer_pc = "idle"
    /\ xfer_start = <<0, 0>>
    /\ xfer_args = [name |-> "none"]
    /\ xfer_ret = "none"
    /\ rx_header = [ide |-> "none"]
    /\ out_std_id = 0
    /\ out_dlc = 0
    /\ out_data = <<0, 0, 0, 0, 0, 0, 0, 0>>
    /\ out_spill = <<>>
    /\ wait_ms = 0
    /\ calls_made = 0
    /\ s_cal = [c \in PsChannels |-> PsDefaultCal]
    /\ ps_raw = [c \in PsChannels |-> 0]
    /\ s_v_pin = [c \in PsChannels |-> 0]
    /\ s_v_in = [c \in PsChannels |-> 0]
    /\ s_v_in_mV = [c \in PsChannels |-> 0]
    /\ s_oor_mask = 0
    /\ s_last_send_tick = tick
    /\ s_node_id = 0
    /\ dma_buf = DmaMixed
    /\ ps_op = [name |-> "init"]
    /\ ps_ret = "none"
    /\ ps_calls = 0
    /\ pub_sent = <<>>
    /\ pub_attempts = <<>>

pubRest == <<acqVars, canVars, cmdVars, apiVars>>

PubPsInit == Process_Signals_Init /\ UNCHANGED <<pubRest, clockVars, xferVars>>

PubUpdate == Process_Signals_Update /\ UNCHANGED <<pubRest, clockVars, xferVars>>

PubSetMinMax == Process_Signals_Set_MinMax /\ UNCHANGED <<pubRest, clockVars, xferVars>>

PubSetDivider == Process_Signals_Set_Divider /\ UNCHANGED <<pubRest, clockVars, xferVars>>

PubSetGainOffset ==
    Process_Signals_Set_GainOffset /\ UNCHANGED <<pubRest, clockVars, xferVars>>

PubSendIfDue == Process_Signals_Send_Can_If_Due /\ UNCHANGED <<pubRest, xferNoMb>>

PubSetNodeId == CAN_Module_Set_Node_Id /\ UNCHANGED <<pubRest, clockVars, xferVars>>

PubDmaWrite == DmaWrite /\ UNCHANGED <<pubRest, clockVars, xferVars>>

PubTick == TickAdvance /\ UNCHANGED <<pubRest, xferVars, psVars>>

PubTxComplete == TxComplete /\ UNCHANGED <<pubRest, clockVars, psVars>>

PubNext ==
    \/ PubPsInit
    \/ PubUpdate
    \/ PubSetMinMax
    \/ PubSetDivider
    \/ PubSetGainOffset
    \/ PubSendIfDue
    \/ PubSetNodeId
    \/ PubDmaWrite
    \/ PubTick
    \/ PubTxComplete

PubSpec == PubInit /\ [][PubNext]_vars

(***************************************************************************)
(* The two due-checks with the tick running over its wrap.                 *)
(***************************************************************************)
WrapTickStarts == {<<HalfWord - 1, HalfWord - 1>>, <<HalfWord - 1, HalfWord - 3>>}

WrapRatePool == {250, 500}

WrapInit ==
    /\ tick \in WrapTickStarts
    /\ uptime = 0
    /\ \E hz \in WrapRatePool : AcqIs(SetEnableMaskBody(InitBody(AcqStatic, 3300, hz, tick), 2))
    /\ CmdStaticInit
    /\ ApiStaticInit
    /\ can_op = [name |-> "init"]
    /\ \E r \in {CanInitBody(CanStatic, 2, TRUE, FALSE, TRUE, TRUE)} :
         /\ s_can = r.c.can /\ s_baud_enum = r.c.baud /\ s_filter_ids = r.c.ids
         /\ s_filter_id_count = r.c.count /\ can_timing = r.c.timing
         /\ can_started = r.c.started /\ filter_banks = r.c.banks
         /\ can_steps = r.c.steps /\ can_ret = r.st
    /\ XferStaticInit
    /\ s_cal = [c \in PsChannels |-> PsDefaultCal]
    /\ ps_raw = [c \in PsChannels |-> 0]
    /\ s_v_pin = [c \in PsChannels |-> 0]
    /\ s_v_in = [c \in PsChannels |-> 0]
    /\ s_v_in_mV = [c \in PsChannels |-> 0]
    /\ s_oor_mask = 0
    /\ s_last_send_tick = tick
    /\ s_node_id = 0
    /\ dma_buf = DmaMixed
    /\ ps_op = [name |-> "init"]
    /\ ps_ret = "none"
    /\ ps_calls = 0
    /\ pub_sent = <<>>
    /\ pub_attempts = <<>>

wrapRest == <<canVars, cmdVars, pureVars, scanObsVars, loopVars, cb_log, ever_enabled>>

(* One call of ADC_Module_Task with a healthy converter.                    *)
WrapTask ==
    /\ ADC_Module_Task(TRUE, TRUE, TRUE, TRUE)
    /\ acq_call' = [name |-> "task"]
    /\ cycle_up' = IF s_cycle_start_ms' # s_cycle_start_ms THEN uptime ELSE cycle_up
    /\ UNCHANGED <<send_up, xferVars, psVars, wrapRest>>

WrapSendIfDue ==
    /\ Process_Signals_Send_Can_If_Due
    /\ send_up' = IF s_last_send_tick' # s_last_send_tick THEN uptime ELSE send_up
    /\ UNCHANGED <<cycle_up, acq_call, acqVars, xferNoMb, wrapRest>>

WrapConversionDone ==
    AdcConversionDone /\ UNCHANGED <<acq_call, timeObs, xferVars, psVars, wrapRest>>

WrapTick ==
    TickAdvance /\ UNCHANGED <<acq_call, timeObs, acqVars, xferVars, psVars, wrapRest>>

WrapTxComplete ==
    /\ TxComplete
    /\ UNCHANGED <<acq_call, timeObs, acqVars, clockVars, psVars, wrapRest>>

WrapNext ==
    \/ WrapTask
    \/ WrapSendIfDue
    \/ WrapConversionDone
    \/ WrapTick
    \/ WrapTxComplete

WrapSpec == WrapInit /\ [][WrapNext]_vars

(***************************************************************************)
(* The per-channel setters of both modules in any order, after start-up.   *)
(***************************************************************************)
SetterEnableChannel ==
    ADC_Module_Enable_Channel
    /\ UNCHANGED <<clockVars, canVars, xferVars, cmdVars, psVars, pureVars, scanObsVars,
                   loopVars, obsVars>>

SetterSetScale ==
    ADC_Module_Set_Scale
    /\ UNCHANGED <<clockVars, canVars, xferVars, cmdVars, psVars, pureVars, scanObsVars,
                   loopVars, obsVars>>

SetterNext ==
    \/ SetterEnableChannel
    \/ SetterSetScale
    \/ PubSetMinMax
    \/ PubSetDivider
    \/ PubSetGainOffset

SetterSpec == PubInit /\ [][SetterNext]_vars

(***************************************************************************)
(* The device after the start-up code of main(): every channel enabled     *)
(* with scale 1.0, ConfigRxCallback registered for CAN_CONFIG_MSG_ID,       *)
(* frames arriving, the interrupt handler and the main loop running.       *)
(***************************************************************************)
xferRest == <<tx_mailboxes, xfer_pc, xfer_start, xfer_args, xfer_ret, rx_header,
              out_std_id, out_dlc, out_data, out_spill, wait_ms, calls_made>>

CmdInit ==
    /\ tick \in TickStarts
    /\ uptime = 0
    /\ PsStaticInit
    /\ ApiStaticInit
    /\ AcqStaticInit
    /\ CanStaticInit
    /\ XferStaticInit
    /\ adcConfigScale = [c \in 0 .. (NUM_CHANNELS - 1) |-> ScaleOne]
    /\ adcEnabled = [c \in 0 .. (NUM_CHANNELS - 1) |-> TRUE]
    /\ rxCbs = RegisterRxCallback(<<>>, CAN_CONFIG_MSG_ID, "ConfigRxCallback")
    /\ lastCanTick = tick
    /\ bus_tx = <<>>
    /\ frames_taken = 0
    /\ cmd_seen = [name |-> "none"]

CmdRxInterrupt ==
    HAL_CAN_RxFifo0MsgPendingCallback /\ UNCHANGED <<psVars, apiVars, clockVars, acqVars, canVars, xferRest>>

CmdMainLoop == MainLoopRound /\ UNCHANGED <<psVars, apiVars, clockVars, acqVars, canVars, xferVars>>

CmdFrameArrives ==
    ConfigFrameArrives /\ UNCHANGED <<psVars, apiVars, clockVars, acqVars, canVars, xferRest, cmdVars>>

CmdTick == TickJump /\ UNCHANGED <<psVars, apiVars, acqVars, canVars, xferVars, cmdVars>>

CmdNext == CmdRxInterrupt \/ CmdMainLoop \/ CmdFrameArrives \/ CmdTick

CmdSpec == CmdInit /\ [][CmdNext]_vars

(***************************************************************************)
(* The main loop statement by statement with the receive interrupt coming  *)
(* between any two statements.                                             *)
(***************************************************************************)
LoopInit ==
    /\ tick \in TickStarts
    /\ uptime = 0
    /\ PsStaticInit
    /\ acq_call = [name |-> "none"]
    /\ PureStaticInit
    /\ ScanObsStaticInit
    /\ AcqStaticInit
    /\ CanStaticInit
    /\ XferStaticInit
    /\ adcConfigScale = [c \in 0 .. (NUM_CHANNELS - 1) |-> ScaleOne]
    /\ adcEnabled = [c \in 0 .. (NUM_CHANNELS - 1) |-> TRUE]
    /\ rxCbs = RegisterRxCallback(<<>>, CAN_CONFIG_MSG_ID, "ConfigRxCallback")
    /\ lastCanTick = tick
    /\ bus_tx = <<>>
    /\ frames_taken = 0
    /\ cmd_seen = [name |-> "none"]
    /\ main_pc = [at |-> "loop", i |-> 0]
    /\ adcValues = [c \in 0 .. (NUM_CHANNELS - 1) |-> 0]
    /\ cfg_seen = [c \in 0 .. (NUM_CHANNELS - 1) |->
                     {[scale |-> ScaleOne, enabled |-> TRUE]}]
    /\ ObsStaticInit

loopRest == <<psVars, acq_call, pureVars, scanObsVars, acqVars, canVars, obsVars>>

LoopRxInterrupt ==
    /\ HAL_CAN_RxFifo0MsgPendingCallback
    /\ RecordConfiguration
    /\ UNCHANGED <<main_pc, adcValues, clockVars, xferRest, loopRest>>

LoopTop == MainLoopTop /\ UNCHANGED <<cfg_seen, clockVars, xferVars, loopRest>>

LoopPollChannel == PollChannel /\ UNCHANGED <<cfg_seen, clockVars, xferVars, loopRest>>

LoopSendPair == SendPair /\ UNCHANGED <<cfg_seen, clockVars, xferVars, loopRest>>

LoopFrameArrives ==
    ConfigFrameArrives /\ UNCHANGED <<loopVars, clockVars, xferRest, cmdVars, loopRest>>

LoopTick == TickJump /\ UNCHANGED <<loopVars, xferVars, cmdVars, loopRest>>

LoopNext ==
    \/ LoopRxInterrupt
    \/ LoopTop
    \/ LoopPollChannel
    \/ LoopSendPair
    \/ LoopFrameArrives
    \/ LoopTick

LoopSpec == LoopInit /\ [][LoopNext]_vars

(***************************************************************************)
(* Callback registration and dispatch: start-up code registers callbacks,  *)
(* accepted frames arrive, the receive handler takes them from FIFO0.      *)
(***************************************************************************)
DispInit ==
    /\ tick = <<0, 0>>
    /\ uptime = 0
    /\ PsStaticInit
    /\ ApiStaticInit
    /\ AcqStaticInit
    /\ CanStaticInit
    /\ XferStaticInit
    /\ adcConfigScale = [c \in 0 .. (NUM_CHANNELS - 1) |-> ScaleOne]
    /\ adcEnabled = [c \in 0 .. (NUM_CHANNELS - 1) |-> TRUE]
    /\ rxCbs = <<>>
    /\ lastCanTick = tick
    /\ bus_tx = <<>>
    /\ frames_taken = 0
    /\ cmd_seen = [name |-> "none"]

dispRest == <<clockVars, psVars, acq_call, pureVars, scanObsVars, loopVars, acqVars,
              canVars>>

DispRegister ==
    CAN_Module_RegisterRxCallback /\ UNCHANGED <<obsVars, xferRest, dispRest>>

DispRxInterrupt ==
    RxHandlerRun /\ UNCHANGED <<ever_enabled, timeObs, xferRest, dispRest>>

DispFrameArrives ==
    AcceptedFrameArrives /\ UNCHANGED <<obsVars, xferRest, cmdVars, dispRest>>

DispNext ==
    \/ DispRegister
    \/ DispRxInterrupt
    \/ DispFrameArrives

DispSpec == DispInit /\ [][DispNext]_vars

(***************************************************************************)
(* Properties of the acquisition engine                                    *)
(***************************************************************************)
StrictlyAscending(seq) == \A i \in 1 .. (Len(seq) - 1) : seq[i] < seq[i + 1]

SeqRange(seq) == {seq[i] : i \in 1 .. Len(seq)}

(* C1: within one scan cycle a conversion is started on each enabled        *)
(* channel exactly once, in ascending index order: the channels started     *)
(* since the cycle opened are strictly ascending (so none is started        *)
(* twice), and when the engine is idle again they are exactly the enabled   *)
(* channels.                                                                *)
C1_EachEnabledChannelOncePerCycle ==
    /\ StrictlyAscending(cyc_seq)
    /\ (s_scan_active = 0 /\ cyc_seq # <<>>)
          => SeqRange(cyc_seq) = EnabledChannels(s_enable_mask)

(* C2: with a fixed non-empty mask and a healthy converter, a scan that     *)
(* has started eventually returns to Idle.                                  *)
C2_ScanEventuallyIdle == (s_scan_active = 1) ~> (s_scan_active = 0)

(***************************************************************************)
(* Properties of the filter banks                                          *)
(***************************************************************************)
StdIds == 0 .. 2047

(* The standard identifiers of data frames that pass the banks.  A bank in  *)
(* mask mode with an all-zero mask passes every identifier (the only mask   *)
(* this module programs); a 16-bit identifier-list bank passes the four     *)
(* identifiers whose encodings (STDID at bits 15:5, IDE = 0, RTR = 0) its   *)
(* registers hold.                                                          *)
AcceptedStdIds(banks) ==
    IF \E b \in Banks : banks[b].active /\ banks[b].mode = "IDMASK"
                          /\ banks[b].regs[3] = 0 /\ banks[b].regs[4] = 0
    THEN StdIds
    ELSE {banks[b].regs[j] \div 32 :
            b \in {x \in Banks : banks[x].active /\ banks[x].mode = "IDLIST"},
            j \in 1 .. 4}

(* The identifier set the module has stored: every identifier when the      *)
(* list is empty, else the stored identifiers' 11-bit values.               *)
StoredIdSet ==
    IF s_filter_id_count = 0 THEN StdIds
    ELSE {s_filter_ids[i] % 2048 : i \in 1 .. s_filter_id_count}

BaudSequence == <<"stop", "timing", "init", "filters", "start">>

(* C6: after a successful CAN_Module_Update_Baud the controller went        *)
(* through stop, timing, init, filters, start in that order, it is running, *)
(* and the banks accept exactly the stored identifier set.                  *)
C6_BaudUpdateReappliesStoredSet ==
    (can_op.name = "baud" /\ can_ret = HAL_OK) =>
        /\ can_steps = BaudSequence
        /\ can_started
        /\ AcceptedStdIds(filter_banks) = StoredIdSet

CeilDiv4(n) == CHOOSE k \in 0 .. n : 4 * k >= n /\ 4 * k < n + 4

ActiveBanks == {b \in Banks : filter_banks[b].active}

EmptyListApplied == can_op.name = "filters" /\ can_ret = HAL_OK /\ s_filter_id_count = 0

(* C8 as stated: after CAN_Module_Update_StdId_Filters with an empty list   *)
(* exactly one bank is active, bank 0 in accept-all mask mode.              *)
C8_OnlyBankZeroActive ==
    EmptyListApplied =>
        /\ ActiveBanks = {0}
        /\ filter_banks[0].mode = "IDMASK"
        /\ filter_banks[0].regs = <<0, 0, 0, 0>>

(* C8 amended: a successful CAN_Module_Update_StdId_Filters with an empty   *)
(* list makes bank 0 an active accept-all mask-mode bank, so every          *)
(* identifier is accepted, and leaves banks 1..13 as they were: banks that  *)
(* an earlier non-empty list activated stay active.                         *)
C8_BankZeroAcceptAllOthersKept ==
    [][ (can_op'.name = "filters" /\ can_ret' = HAL_OK /\ s_filter_id_count' = 0) =>
          /\ filter_banks'[0].active
          /\ filter_banks'[0].mode = "IDMASK"
          /\ filter_banks'[0].scale = 32
          /\ filter_banks'[0].regs = <<0, 0, 0, 0>>
          /\ AcceptedStdIds(filter_banks') = StdIds
          /\ \A b \in Banks \ {0} : filter_banks'[b] = filter_banks[b] ]_vars

(* An empty list was applied while bank 1 was still active from an earlier  *)
(* list of five identifiers.                                                *)
C8_Witness == EmptyListApplied /\ filter_banks[0].mode = "IDMASK" /\ 1 \in ActiveBanks

(***************************************************************************)
(* Properties of bounded send and receive                                  *)
(***************************************************************************)
Waiting == xfer_pc # "idle"

(* What the waiting call waits for is not there.                            *)
ResourceAbsent ==
    IF xfer_pc = "send_wait" THEN Len(tx_mailboxes) = TxMailboxCount ELSE rx_fifo = <<>>

(* C5: CAN_Module_Send_Std and CAN_Module_Receive_Std always return: a      *)
(* waiting call eventually returns, and when it returns without a free      *)
(* mailbox (without a frame in the FIFO) it returns HAL_TIMEOUT and the     *)
(* tick has advanced by at least timeout_ms since the call started, for     *)
(* every timeout including 0 and across a wrap of the 32-bit tick.          *)
C5_CallsAlwaysReturn ==
    /\ Waiting ~> (xfer_pc = "idle")
    /\ [][ (Waiting /\ xfer_pc' = "idle") =>
             /\ (xfer_ret' = HAL_TIMEOUT) <=> ResourceAbsent
             /\ (xfer_ret' = HAL_TIMEOUT) => wait_ms >= xfer_args.timeout_ms ]_vars

(* A call with the largest timeout returned HAL_TIMEOUT after the tick      *)
(* wrapped from 0xFFFFFFFF to 0 while it waited.                            *)
C5_Witness ==
    /\ xfer_pc = "idle"
    /\ xfer_ret = HAL_TIMEOUT
    /\ xfer_args.timeout_ms = MaxTimeout
    /\ xfer_start[1] = HalfWord - 1
    /\ tick[1] = 0

SendArgs == xfer_args.name = "send"

(* C9: CAN_Module_Send_Std returns HAL_TIMEOUT exactly when no mailbox was  *)
(* free within timeout_ms, and then hands no frame to the hardware; it      *)
(* returns the hardware's status when the enqueue fails; it returns HAL_OK  *)
(* exactly when one frame with the low 11 bits of std_id, the DLC and the   *)
(* payload was enqueued.  A call refused at entry enqueues nothing.         *)
C9_SendOutcomes ==
    [][ /\ (xfer_pc = "send_wait" /\ xfer_pc' = "idle") =>
             /\ xfer_ret' \in {HAL_TIMEOUT, HAL_ERROR, HAL_OK}
             /\ (xfer_ret' = HAL_TIMEOUT) <=> (Len(tx_mailboxes) = TxMailboxCount)
             /\ (xfer_ret' = HAL_TIMEOUT) => wait_ms >= xfer_args.timeout_ms
             /\ (xfer_ret' = HAL_OK) <=>
                   (tx_mailboxes' = Append(tx_mailboxes,
                                           [id |-> xfer_args.std_id % 2048,
                                            dlc |-> xfer_args.dlc,
                                            data |-> SubSeq(Payload, 1, xfer_args.dlc)]))
             /\ (xfer_ret' # HAL_OK) => (tx_mailboxes' = tx_mailboxes)
        /\ (xfer_pc = "idle" /\ calls_made' # calls_made /\ xfer_pc' = "idle") =>
             (xfer_ret' = HAL_ERROR /\ tx_mailboxes' = tx_mailboxes) ]_vars

(* A send with an identifier above 11 bits returned HAL_OK and its frame,   *)
(* with the identifier cut to 11 bits, is the newest in the mailboxes.      *)
C9_Witness ==
    /\ xfer_pc = "idle"
    /\ SendArgs
    /\ xfer_ret = HAL_OK
    /\ xfer_args.std_id > 2047
    /\ xfer_args.dlc = 8
    /\ tx_mailboxes # <<>>
    /\ tx_mailboxes[Len(tx_mailboxes)].id = 291

OutputsKept ==
    /\ out_std_id' = out_std_id
    /\ out_dlc' = out_dlc
    /\ out_data' = out_data
    /\ out_spill' = out_spill

(* The outputs after a successful receive of frame f: identifier, DLC and   *)
(* the frame's payload bytes (a frame carries at most 8).                   *)
OutputsHold(f) ==
    /\ out_std_id' = f.id % 2048
    /\ out_dlc' = f.dlc
    /\ \A i \in 1 .. 8 : (i <= f.dlc) => out_data'[i] = f.data[i]

RecvReturns == xfer_pc = "recv_wait" /\ xfer_pc' = "idle" /\ rx_fifo # <<>>

(* C10 as stated: with an extended frame at the head of the FIFO            *)
(* CAN_Module_Receive_Std returns an error status and writes no output;     *)
(* with a standard frame at the head it returns HAL_OK with that frame's    *)
(* identifier, DLC and payload.                                             *)
C10_HeadFrameDecidesOutcome ==
    [][ RecvReturns =>
          IF Head(rx_fifo).ide # "STD"
          THEN xfer_ret' \notin {HAL_OK, HAL_TIMEOUT} /\ OutputsKept
          ELSE xfer_ret' = HAL_OK /\ OutputsHold(Head(rx_fifo)) ]_vars

(* C10 amended: when the hardware read of the head frame fails the call     *)
(* returns HAL_ERROR and writes no output, whatever the frame; when the     *)
(* frame is read, an extended frame gives HAL_ERROR with no output written  *)
(* and a standard frame gives HAL_OK with its identifier, DLC and payload.  *)
C10_ReadFrameDecidesOutcome ==
    [][ RecvReturns =>
          IF rx_fifo' = rx_fifo
          THEN xfer_ret' = HAL_ERROR /\ OutputsKept
          ELSE /\ rx_fifo' = Tail(rx_fifo)
               /\ IF Head(rx_fifo).ide # "STD"
                  THEN xfer_ret' = HAL_ERROR /\ OutputsKept
                  ELSE xfer_ret' = HAL_OK /\ OutputsHold(Head(rx_fifo)) ]_vars

(* A receive took an extended frame from the FIFO and returned HAL_ERROR.   *)
C10_Witness ==
    /\ xfer_pc = "idle"
    /\ xfer_args.name = "recv"
    /\ xfer_ret = HAL_ERROR
    /\ rx_header.ide = "EXT"
    /\ out_std_id = 0

(***************************************************************************)
(* Properties of command handling                                          *)
(***************************************************************************)

(* The command identifier (node_id + 0x5) is the identifier the handler is  *)
(* registered for; the acknowledgement goes out on the next identifier      *)
(* (node_id + 0x6) with DLC 1.                                              *)
AckId == CAN_CONFIG_MSG_ID + 1

IsAck(f) == f.id = AckId /\ f.dlc = 1

AcksSent == Len(SelectSeq(bus_tx, IsAck))

(* C3: every command frame taken from the FIFO has been answered by exactly *)
(* one acknowledgement before the next one is processed: the number of      *)
(* acknowledgements sent equals the number of commands processed.           *)
C3_OneAckPerCommand == AcksSent = frames_taken

(* A command as the protocol table reads it: com = d[1], d1 = d[2], ...     *)
ValidCommand(d) ==
    CASE d[1] = 1 -> d[2] \in 0 .. 3
      [] d[1] = 2 -> TRUE
      [] d[1] = 3 -> d[2] \in 0 .. 7
      [] d[1] = 4 -> d[2] \in 0 .. 7 /\ (d[3] + 256 * d[4]) < (d[5] + 256 * d[6])
      [] d[1] = 5 -> d[2] \in 0 .. 7 /\ d[3] \in 0 .. 4
      [] OTHER -> FALSE

AnsweredWith(success) ==
    bus_tx' = Append(bus_tx, [id |-> AckId, dlc |-> 1, data |-> <<success>>])

(* C4: a command that fails validation leaves the device state unchanged    *)
(* and is answered with success = 0; a valid command is answered with       *)
(* success = 1.                                                             *)
C4_InvalidCommandChangesNothing ==
    [][ (frames_taken' = frames_taken + 1) =>
          IF ValidCommand(cmd_seen'.data)
          THEN AnsweredWith(1)
          ELSE /\ adcConfigScale' = adcConfigScale
               /\ adcEnabled' = adcEnabled
               /\ AnsweredWith(0) ]_vars

(***************************************************************************)
(* Telemetry publishing and signal conditioning                            *)
(***************************************************************************)

(* A step that is a call of Process_Signals_Send_Can_If_Due.                *)
PubCallStep == ps_calls' # ps_calls /\ ps_op'.name = "send_if_due"

(* The call finds period_ms elapsed since s_last_send_tick.                 *)
PubDue == U32Geq(ElapsedMs(tick, s_last_send_tick), U32(ps_op'.period_ms))

(* A step in which Process_Signals_Update ran, alone or inside a publish.   *)
UpdateRan ==
    /\ ps_calls' # ps_calls
    /\ \/ ps_op'.name = "update"
       \/ ps_op'.name = "send_if_due" /\ ps_ret' # HAL_BUSY

(* C11: a publish that succeeds has handed over exactly three frames, in    *)
(* the order node_id+1 (channels 0..3), node_id+2 (channels 4..7),          *)
(* node_id+3 (device status), each with DLC 8 and the two value frames      *)
(* carrying the millivolts refreshed by this call.                          *)
C11_PublishSendsThreeFramesInOrder ==
    [][PubCallStep /\ ps_ret' = HAL_OK =>
         /\ Len(pub_sent') = 3
         /\ \A k \in 1 .. 3 :
               pub_sent'[k].id = s_node_id + k /\ pub_sent'[k].dlc = 8
         /\ pub_sent'[1].data = MvFrame(s_v_in_mV', 0)
         /\ pub_sent'[2].data = MvFrame(s_v_in_mV', 4)]_vars

C13_EarlyCallChangesNothing ==
    [][PubCallStep /\ ~PubDue =>
         /\ ps_ret' = HAL_BUSY
         /\ pub_sent' = <<>>
         /\ tx_mailboxes' = tx_mailboxes
         /\ UNCHANGED <<s_last_send_tick, ps_raw, s_v_pin, s_v_in, s_v_in_mV,
                        s_oor_mask>>]_vars

(* An early call returned while the buffer held values that an update would *)
(* have copied.                                                             *)
C13_Witness ==
    /\ ps_op.name = "send_if_due"
    /\ ps_ret = HAL_BUSY
    /\ ps_raw # dma_buf

(* C14: after Process_Signals_Update, bit i of the mask is set exactly when *)
(* the device-input voltage of channel i lies outside the closed interval   *)
(* from v_min to v_max.                                                     *)
C14_InclusiveRangeBounds ==
    [][UpdateRan =>
         \A c \in PsChannels :
            BitSet(s_oor_mask', c) <=>
               ~(/\ s_cal'[c].v_min * PS_ADC_FULL_SCALE <= s_v_in'[c]
                 /\ s_v_in'[c] <= s_cal'[c].v_max * PS_ADC_FULL_SCALE)]_vars

(* An update has classified a channel whose voltage sits exactly on one of  *)
(* its bounds as in range, and another channel as out of range.             *)
C14_Witness ==
    /\ ps_op.name = "update"
    /\ \E c \in PsChannels :
          /\ \/ s_v_in[c] = s_cal[c].v_min * PS_ADC_FULL_SCALE
             \/ s_v_in[c] = s_cal[c].v_max * PS_ADC_FULL_SCALE
          /\ ~BitSet(s_oor_mask, c)
    /\ \E c \in PsChannels : BitSet(s_oor_mask, c)

(* The 2-bit code of channel c in a status word.                            *)
StatusCode(word, c) == (word \div (4 ^ c)) % 4

(* C15: a successful publish carries a status frame whose first two bytes   *)
(* hold, two bits per channel from the least-significant end, code 00 for   *)
(* every disabled channel and a code other than 00 for every enabled one.   *)
C15_StatusWordMarksEnabledChannels ==
    [][PubCallStep /\ ps_ret' = HAL_OK =>
         \E k \in 1 .. Len(pub_sent') :
            /\ pub_sent'[k].id = s_node_id + 3
            /\ LET word == (pub_sent'[k].data[1] * 256) + pub_sent'[k].data[2]
               IN \A c \in PsChannels :
                     (StatusCode(word, c) = 0) <=> ~BitSet(s_enable_mask, c)]_vars

(* C16: every channel's lower threshold is below its upper threshold.       *)
C16_MinBelowMax == \A c \in PsChannels : s_cal[c].v_min < s_cal[c].v_max

(***************************************************************************)
(* Sample rate of the acquisition engine                                   *)
(***************************************************************************)

(* C17: after ADC_Module_Set_Sample_Rate(hz) the stored rate is hz clamped  *)
(* to 1..2000 and cycle_interval_ms is the whole number of milliseconds     *)
(* nearest to 1000/rate, which is (1000 + rate/2) / rate in integers.       *)
C17_SetSampleRateClampsAndRounds ==
    acq_call.name = "set_sample_rate" =>
       LET hz == acq_call.sample_hz
       IN /\ hz < 1 => s_sample_hz = 1
          /\ hz > 2000 => s_sample_hz = 2000
          /\ (1 <= hz /\ hz <= 2000) => s_sample_hz = hz
          /\ 2 * (s_cycle_interval_ms * s_sample_hz - 1000) <= s_sample_hz
          /\ 2 * (1000 - s_cycle_interval_ms * s_sample_hz) <= s_sample_hz
          /\ s_cycle_interval_ms = (1000 + (s_sample_hz \div 2)) \div s_sample_hz

(* The setter was called with 5000 and stored 2000 Hz and a 1 ms interval.  *)
C17_Witness ==
    /\ acq_call.name = "set_sample_rate"
    /\ acq_call.sample_hz = 5000
    /\ s_sample_hz = 2000
    /\ s_cycle_interval_ms = 1

(* C18: the stored sample rate is within 1..2000 Hz and cycle_interval_ms   *)
(* is at least 1.                                                           *)
C18_RateAndIntervalInRange ==
    /\ 1 <= s_sample_hz
    /\ s_sample_hz <= 2000
    /\ s_cycle_interval_ms >= 1

(***************************************************************************)
(* Baud selector and filter list capacity                                  *)
(***************************************************************************)

(* The prescaler of each documented selector: 125k, 250k, 500k, 1M.         *)
SelectorPrescaler == [b \in 0 .. 3 |-> CASE b = 0 -> 24 [] b = 1 -> 12
                                         [] b = 2 -> 6 [] OTHER -> 3]

(* C19: once CAN_Module_Init or CAN_Module_Update_Baud has been called with *)
(* a handle, CAN_Module_Get_Baud_Enum returns one of 0, 1, 2, 3 and the     *)
(* bit timing in the handle is that selector's.                             *)
C19_BaudSelectorInRange ==
    s_can # "NULL" =>
       /\ s_baud_enum \in 0 .. 3
       /\ can_timing.prescaler = SelectorPrescaler[s_baud_enum]

(* A call of CAN_Module_Update_StdId_Filters with a valid pointer and at    *)
(* least one identifier, on an initialised module.                          *)
ListGiven ==
    /\ can_op.name = "filters"
    /\ can_op.ptr = "list"
    /\ Len(can_op.id_list) > 0
    /\ s_can # "NULL"

(* The module stores the first k identifiers of the list given, in order,   *)
(* and a call that returned HAL_OK has programmed exactly those: slot j of  *)
(* bank b holds identifier 4b+j, banks past the last identifier are off.    *)
StoresAndProgramsFirst(k) ==
    /\ s_filter_id_count = k
    /\ \A i \in 1 .. k : s_filter_ids[i] = can_op.id_list[i]
    /\ can_ret = HAL_OK =>
          \A b \in Banks :
             IF 4 * b < k
             THEN /\ filter_banks[b].active
                  /\ filter_banks[b].mode = "IDLIST"
                  /\ \A j \in 1 .. 4 :
                        (4 * b + j <= k) =>
                           filter_banks[b].regs[j] = (can_op.id_list[4 * b + j] % 2048) * 32
             ELSE ~filter_banks[b].active

Saturation == MvSaturation * PS_ADC_FULL_SCALE

Abs(n) == IF n < 0 THEN -n ELSE n

EncodedAsSpecified(v, r) ==
    /\ r \in 0 .. MvSaturation
    /\ v <= 0 => r = 0
    /\ v >= Saturation => r = MvSaturation
    /\ (0 < v /\ v < Saturation) => 2 * Abs((r * PS_ADC_FULL_SCALE) - v) <= PS_ADC_FULL_SCALE

(* C27: volts_to_mV_u16 returns 0 for every voltage at or below 0 V, 65535   *)
(* for every voltage at or above 65.535 V, and otherwise the millivolt       *)
(* value nearest to the voltage; of two voltages the larger never encodes    *)
(* to the smaller value, so the result never wraps modulo 2^16.              *)
C27_MillivoltEncodingSaturates ==
    fn_call.name = "volts_to_mV_u16" =>
       /\ EncodedAsSpecified(fn_call.v, fn_result)
       /\ fn_prev[1].name = "volts_to_mV_u16" =>
             /\ fn_prev[1].v <= fn_call.v => fn_prev[2] <= fn_result
             /\ fn_prev[1].v >= fn_call.v => fn_prev[2] >= fn_result

(* A voltage above 65.536 V was encoded after one just below 65.535 V: the   *)
(* first gave 65535 after rounding, the second 65535 by saturation.          *)
C27_Witness ==
    /\ fn_call.name = "volts_to_mV_u16"
    /\ fn_call.v > 65536 * PS_ADC_FULL_SCALE
    /\ fn_result = MvSaturation
    /\ fn_prev[1].name = "volts_to_mV_u16"
    /\ fn_prev[1].v < Saturation
    /\ fn_prev[2] = MvSaturation

(* Bits per second of each selector.                                        *)
SelectorBitRate == [b \in 0 .. 3 |-> CASE b = 0 -> 125000 [] b = 1 -> 250000
                                       [] b = 2 -> 500000 [] OTHER -> 1000000]

CanKernelClockHz == 48000000

(* C29: set_bit_timing_for_baud gives selectors 0, 1, 2, 3 the prescalers    *)
(* 24, 12, 6, 3, always with SJW 1, BS1 13 and BS2 2 time quanta, so that    *)
(* prescaler * 16 * bit rate is the 48 MHz kernel clock.                     *)
C29_BitTimingTable ==
    (fn_call.name = "set_bit_timing_for_baud" /\ fn_call.baud_enum \in 0 .. 3) =>
       /\ fn_result.prescaler = SelectorPrescaler[fn_call.baud_enum]
       /\ fn_result.sjw = 1
       /\ fn_result.bs1 = 13
       /\ fn_result.bs2 = 2
       /\ fn_result.prescaler * 16 * SelectorBitRate[fn_call.baud_enum] = CanKernelClockHz

(* The timing of the 1 Mbps selector was computed.                           *)
C29_Witness ==
    /\ fn_call.name = "set_bit_timing_for_baud"
    /\ fn_call.baud_enum = 3
    /\ fn_result.prescaler = 3

(***************************************************************************)
(* Per-channel setters                                                     *)
(***************************************************************************)

(* The private state of adc_module.c and of process_signals.c.              *)
AcqModuleState ==
    <<s_adc, s_enable_mask, s_raw, s_pin_v, s_scaled_v, s_scale_gain, s_vref_mv,
      s_sample_hz, s_cycle_interval_ms, s_cycle_start_ms, s_scan_active,
      s_conv_in_progress, s_active_channel>>

AcqStateButMask ==
    <<s_adc, s_raw, s_pin_v, s_scaled_v, s_scale_gain, s_vref_mv,
      s_sample_hz, s_cycle_interval_ms, s_cycle_start_ms, s_scan_active,
      s_conv_in_progress, s_active_channel>>

AcqStateButGain ==
    <<s_adc, s_enable_mask, s_raw, s_pin_v, s_scaled_v, s_vref_mv,
      s_sample_hz, s_cycle_interval_ms, s_cycle_start_ms, s_scan_active,
      s_conv_in_progress, s_active_channel>>

PsModuleState ==
    <<s_cal, ps_raw, s_v_pin, s_v_in, s_v_in_mV, s_oor_mask, s_last_send_tick,
      s_node_id>>

PsStateButCal ==
    <<ps_raw, s_v_pin, s_v_in, s_v_in_mV, s_oor_mask, s_last_send_tick, s_node_id>>

PsSetterStep ==
    /\ ps_calls' = ps_calls + 1
    /\ ps_op'.name \in {"set_minmax", "set_divider", "set_gainoffset"}

AcqSetterStep ==
    /\ ps_calls' = ps_calls
    /\ acq_call'.name \in {"enable_channel", "set_scale"}

(* C26: a per-channel setter called with an index of 8 or more changes no   *)
(* state of either module; called with a valid index it changes nothing     *)
(* but that channel's entry (its calibration, its enable bit, its gain).    *)
C26_SettersTouchOnlyTheirChannel ==
    [][ /\ PsSetterStep =>
            /\ UNCHANGED <<AcqModuleState, PsStateButCal>>
            /\ IF ps_op'.arg.ch >= PS_NUM_CHANNELS
               THEN UNCHANGED s_cal
               ELSE \A c \in PsChannels \ {ps_op'.arg.ch} : s_cal'[c] = s_cal[c]
        /\ (AcqSetterStep /\ acq_call'.name = "enable_channel") =>
            /\ UNCHANGED <<PsModuleState, AcqStateButMask>>
            /\ IF acq_call'.arg.channel_index >= ADC_MODULE_CHANNEL_COUNT
               THEN UNCHANGED s_enable_mask
               ELSE \A c \in Channels \ {acq_call'.arg.channel_index} :
                       BitSet(s_enable_mask', c) = BitSet(s_enable_mask, c)
        /\ (AcqSetterStep /\ acq_call'.name = "set_scale") =>
            /\ UNCHANGED <<PsModuleState, AcqStateButGain>>
            /\ IF acq_call'.arg.channel_index >= ADC_MODULE_CHANNEL_COUNT
               THEN UNCHANGED s_scale_gain
               ELSE \A c \in Channels \ {acq_call'.arg.channel_index} :
                       s_scale_gain'[c] = s_scale_gain[c]
      ]_vars

(* ADC_Module_Set_Scale(255, 0.5) was called and no gain is 0.5, and        *)
(* Process_Signals_Set_MinMax on channel 5 changed channel 5's calibration  *)
(* and left channel 0's as it was.                                          *)
C26_Witness ==
    /\ acq_call = [name |-> "set_scale",
                   arg |-> [channel_index |-> 255, scale_gain |-> 500]]
    /\ \A c \in Channels : s_scale_gain[c] # 500
    /\ ps_op.name = "set_minmax"
    /\ ps_op.arg.ch = 5
    /\ s_cal[5] # PsDefaultCal
    /\ s_cal[0] = PsDefaultCal

DividerStep ==
    /\ ps_calls' = ps_calls + 1
    /\ ps_op'.name = "set_divider"
    /\ ps_op'.arg.ch < PS_NUM_CHANNELS

(* C28: Process_Signals_Set_Divider with r_bottom > 0 sets the channel's    *)
(* gain to (r_top + r_bottom) / r_bottom and its offset to 0; with          *)
(* r_bottom <= 0 the channel's gain and offset keep their values.  Gains    *)
(* are in tenths: 10000 over 10000 ohms gives 20.                           *)
C28_DividerSetsGainOrRejects ==
    [][ DividerStep =>
          LET arg == ps_op'.arg
          IN IF arg.r_bottom > 0
             THEN /\ s_cal'[arg.ch].gain * arg.r_bottom = (arg.r_top + arg.r_bottom) * 10
                  /\ s_cal'[arg.ch].offset = 0
                  /\ (arg.r_top = 10000 /\ arg.r_bottom = 10000) =>
                        s_cal'[arg.ch].gain = 20
             ELSE /\ s_cal'[arg.ch].gain = s_cal[arg.ch].gain
                  /\ s_cal'[arg.ch].offset = s_cal[arg.ch].offset
      ]_vars

(* A divider of 30000 over 10000 ohms was set on channel 1, whose offset    *)
(* Process_Signals_Set_GainOffset had made 0.5 V before: gain 4, offset 0.  *)
C28_Witness ==
    /\ ps_op.name = "set_divider"
    /\ ps_op.arg = [ch |-> 1, r_top |-> 30000, r_bottom |-> 10000]
    /\ ps_calls = 2
    /\ s_cal[1].gain = 40
    /\ s_cal[1].offset = 0

(***************************************************************************)
(* Scanning: faults, reconfiguration during a scan, cycle start            *)
(***************************************************************************)

(* A step that is one call of ADC_Module_Task.                              *)
TaskStep ==
    /\ acq_call'.name = "task"
    /\ tick' = tick
    /\ api_calls' = api_calls
    /\ ~(adc_hw = "busy" /\ adc_hw' = "eoc")

FaultReported == acq_call'.svc_fault # "none" \/ acq_call'.open_fault # "none"

IdleAfter == s_scan_active' = 0 /\ s_conv_in_progress' = 0

DueNow ==
    U32Geq(ElapsedMs(tick, s_cycle_start_ms), U32(s_cycle_interval_ms))

(* The first enabled channel found searching upward from start, wrapping    *)
(* once through the 8 indices.                                              *)
FirstEnabledFrom(mask, start) ==
    LET found == {n \in 0 .. 7 : BitSet(mask, (start + n) % 8)}
        n0 == CHOOSE n \in found : \A m \in found : n <= m
    IN (start + n0) % 8

(* A scan begins in this call: the engine is scanning afterwards and was    *)
(* idle before, or the cycle start was taken anew.                          *)
ScanBegins ==
    /\ TaskStep
    /\ s_scan_active' = 1
    /\ s_scan_active = 0 \/ s_cycle_start_ms' # s_cycle_start_ms

(* No conversion is started while the engine is idle unless a cycle is due, *)
(* and a call that finds the engine idle, a cycle due, a channel enabled    *)
(* and the converter healthy starts a new scan.                             *)
RetriesWhenDue ==
    /\ (s_scan_active = 0 /\ s_conv_in_progress' = 1) =>
          (TaskStep /\ DueNow /\ s_cycle_start_ms' = tick)
    /\ (TaskStep /\ s_scan_active = 0 /\ DueNow /\ s_enable_mask # 0
           /\ acq_call'.open_fault = "none") =>
          (s_scan_active' = 1 /\ s_conv_in_progress' = 1)

(* C21 as stated: whenever the HAL reports a fault at a channel selection   *)
(* or start, the engine is idle with no conversion in progress when         *)
(* ADC_Module_Task returns; it starts no conversion until the next cycle is *)
(* due and then starts a new scan.                                          *)
C21_FaultLeavesEngineIdle ==
    [][ /\ (TaskStep /\ FaultReported) => IdleAfter
        /\ RetriesWhenDue ]_vars

(* C21 amended: a fault at the start that opens a cycle leaves the engine   *)
(* idle with no conversion in progress.  A fault between channels ends the  *)
(* scan; the engine is idle on return unless the cycle interval had         *)
(* already elapsed, in which case the same call opens the next cycle from   *)
(* the lowest enabled channel.  No conversion starts while idle until a     *)
(* cycle is due, and then a new scan starts.                                *)
C21_FaultEndsScanAndRetriesWhenDue ==
    [][ /\ (TaskStep /\ acq_call'.open_fault # "none") => IdleAfter
        /\ (TaskStep /\ acq_call'.svc_fault # "none" /\ acq_call'.open_fault = "none") =>
              IF DueNow
              THEN /\ s_scan_active' = 1
                   /\ s_conv_in_progress' = 1
                   /\ s_cycle_start_ms' = tick
                   /\ s_active_channel' = FirstEnabledFrom(s_enable_mask, 0)
              ELSE IdleAfter /\ s_active_channel' = NoChannel
        /\ RetriesWhenDue ]_vars

(* A fault between channels was reported by a call that found the next      *)
(* cycle due: the call returned with a new scan open.                       *)
C21_Witness ==
    /\ acq_call.name = "task"
    /\ acq_call.svc_fault # "none"
    /\ acq_call.open_fault = "none"
    /\ s_scan_active = 1
    /\ s_conv_in_progress = 1
    /\ adc_hw = "busy"
    /\ s_cycle_start_ms = tick

(* C22: disabling the channel whose conversion is in flight leaves the      *)
(* conversion running; the call of ADC_Module_Task that finds it complete   *)
(* stores its result in that channel's raw and voltage slots and, the       *)
(* converter being healthy, goes on with the lowest enabled channel above   *)
(* it.                                                                      *)
C22_DisabledActiveChannelStillStored ==
    [][ /\ (api_calls' = api_calls + 1
             /\ acq_call'.name \in {"enable_channel", "set_enable_mask"}) =>
              UNCHANGED <<s_scan_active, s_conv_in_progress, s_active_channel,
                          adc_hw, adc_dr, s_raw, s_pin_v, s_scaled_v>>
        /\ (TaskStep /\ s_conv_in_progress = 1 /\ adc_hw = "eoc"
             /\ s_active_channel \in Channels
             /\ ~BitSet(s_enable_mask, s_active_channel)) =>
              LET ch == s_active_channel
                  above == {c \in EnabledChannels(s_enable_mask) : c > ch}
              IN /\ s_raw'[ch] = adc_dr % 65536
                 /\ s_pin_v'[ch] = PinVoltage(adc_dr, s_vref_mv)
                 /\ s_scaled_v'[ch] = ScaledVoltage(PinVoltage(adc_dr, s_vref_mv),
                                                    s_scale_gain[ch])
                 /\ \A c \in Channels \ {ch} :
                       /\ s_raw'[c] = s_raw[c]
                       /\ s_pin_v'[c] = s_pin_v[c]
                       /\ s_scaled_v'[c] = s_scaled_v[c]
                 /\ (above # {} /\ acq_call'.svc_fault = "none") =>
                       /\ s_scan_active' = 1
                       /\ s_conv_in_progress' = 1
                       /\ \A c \in above : s_active_channel' <= c
                       /\ s_active_channel' \in above
      ]_vars

(* Channel 0 was disabled while its conversion ran; the call that found     *)
(* the conversion complete stored the reading and started channel 4.        *)
C22_Witness ==
    /\ acq_call.name = "task"
    /\ acq_call.stored = 0
    /\ api_calls = 1
    /\ s_enable_mask = 16
    /\ s_raw[0] = 4095
    /\ s_active_channel = 4
    /\ s_conv_in_progress = 1

(* The engine state after the conversion check of this call.                *)
PostService ==
    service_conversion_state(AcqNow, acq_call'.svc_fault # "select",
                             acq_call'.svc_fault # "start")

SearchStart == IF last_conv' = NoChannel THEN 0 ELSE (last_conv' + 1) % 8

(* C23 as stated: a scan begins only with the engine idle, the interval     *)
(* elapsed and a channel enabled, and its first channel is the first        *)
(* enabled one searching upward from the channel after the one converted    *)
(* last in the previous scan (from 0 if there was none).                    *)
C23_ScanStartsAfterLastActive ==
    [][ ScanBegins =>
          /\ PostService.scan = 0
          /\ U32Geq(ElapsedMs(tick, PostService.cycle_start), U32(PostService.interval))
          /\ s_enable_mask # 0
          /\ s_active_channel' = FirstEnabledFrom(s_enable_mask, SearchStart)
      ]_vars

(* C23 amended: a scan begins only with the engine idle, the interval       *)
(* elapsed and a channel enabled, and its first channel is the lowest       *)
(* enabled index, whichever channel was converted last before.              *)
C23_ScanStartsAtLowestEnabled ==
    [][ ScanBegins =>
          /\ PostService.scan = 0
          /\ U32Geq(ElapsedMs(tick, PostService.cycle_start), U32(PostService.interval))
          /\ s_enable_mask # 0
          /\ s_active_channel' = FirstEnabledFrom(s_enable_mask, 0)
          /\ \A c \in EnabledChannels(s_enable_mask) : s_active_channel' <= c
      ]_vars

(* With channels 1 and 2 enabled a scan was opened on channel 1 after       *)
(* channel 1 had been the last one converted.                               *)
C23_Witness ==
    /\ acq_call.name = "task"
    /\ s_enable_mask = 6
    /\ last_conv = 1
    /\ s_scan_active = 1
    /\ s_conv_in_progress = 1
    /\ s_active_channel = 1
    /\ cyc_seq = <<1>>
    /\ s_cycle_start_ms = tick
    /\ adc_hw = "busy"

(* C24: a call of ADC_Module_Task that finds the conversion in flight not   *)
(* complete returns with the scan cursor and all stored readings as they    *)
(* were, and the conversion still running.                                  *)
C24_TaskLeavesRunningConversionAlone ==
    [][ (TaskStep /\ s_conv_in_progress = 1 /\ adc_hw # "eoc") =>
          UNCHANGED <<s_scan_active, s_conv_in_progress, s_active_channel,
                      s_cycle_start_ms, s_raw, s_pin_v, s_scaled_v, adc_hw, adc_dr>>
      ]_vars

(* The task ran after the rate had been set to 2 Hz during the first        *)
(* conversion of a scan, and that conversion is still running.              *)
C24_Witness ==
    /\ acq_call.name = "task"
    /\ acq_call.stored = NoChannel
    /\ api_calls = 1
    /\ s_sample_hz = 2
    /\ s_conv_in_progress = 1
    /\ adc_hw = "busy"
    /\ Len(cyc_seq) = 1
    /\ s_cycle_start_ms # tick

(* C25: ADC_Module_Set_Sample_Rate changes the stored rate and the cycle    *)
(* interval and nothing else, also during a scan; the next due-check of an  *)
(* idle engine opens a cycle exactly when the interval stored then has      *)
(* elapsed.                                                                 *)
C25_SetSampleRateKeepsScan ==
    [][ /\ (api_calls' = api_calls + 1 /\ acq_call'.name = "set_sample_rate") =>
              /\ UNCHANGED <<s_adc, s_enable_mask, s_raw, s_pin_v, s_scaled_v,
                             s_scale_gain, s_vref_mv, s_cycle_start_ms, s_scan_active,
                             s_conv_in_progress, s_active_channel, adc_hw, adc_dr>>
              /\ s_cycle_interval_ms' = (1000 + (s_sample_hz' \div 2)) \div s_sample_hz'
        /\ (TaskStep /\ s_scan_active = 0 /\ s_enable_mask # 0
             /\ acq_call'.open_fault = "none") =>
              (s_scan_active' = 1 <=> DueNow)
      ]_vars

(* The rate was set to 2000 Hz while the second channel of a scan was being *)
(* converted, and the scan is still on that channel.                        *)
C25_Witness ==
    /\ acq_call = [name |-> "set_sample_rate", sample_hz |-> 2000]
    /\ s_sample_hz = 2000
    /\ s_cycle_interval_ms = 1
    /\ s_scan_active = 1
    /\ s_conv_in_progress = 1
    /\ s_active_channel = 4
    /\ cyc_seq = <<0, 4>>

(***************************************************************************)
(* Configuration frames against the publishing main loop                   *)
(***************************************************************************)

(* What the main loop publishes for a channel whose configuration is cfg.   *)
ValueUnder(ch, cfg) == IF cfg.enabled THEN [ch |-> ch, scale |-> cfg.scale] ELSE NaN

(* C30: every value published for a channel is the one some configuration   *)
(* (scale together with enable flag) the channel has held yields: none      *)
(* combines the scale of one configuration with the enable flag of          *)
(* another, wherever in the main loop the receive interrupt comes.          *)
C30_NoTornConfigurationPublished ==
    \A k \in 1 .. Len(bus_tx) :
       \A slot \in 1 .. 2 :
          LET ch == (2 * (bus_tx[k].id - CAN_MSG_BASE_ID)) + (slot - 1)
          IN \E cfg \in cfg_seen[ch] : bus_tx[k].data[slot] = ValueUnder(ch, cfg)

(***************************************************************************)
(* Callback dispatch                                                       *)
(***************************************************************************)

(* The registry entries the handler has to call for a frame.                *)
MatchingEntries(cbs, frame) ==
    {i \in 1 .. Len(cbs) : cbs[i].msgId = frame.id /\ cbs[i].callback # "NULL"}

HandlerStep == cb_log' # cb_log \/ frames_taken' # frames_taken

(* C31: a run of the receive handler that takes a frame from FIFO0 calls    *)
(* each registry entry whose id equals the frame's standard id exactly      *)
(* once, in registration order, with that frame's header and data, and no   *)
(* entry registered for another id; a run whose read fails calls nothing    *)
(* and leaves the frame where it is.                                        *)
C31_MatchingCallbacksOnceInOrder ==
    [][HandlerStep =>
          IF cb_log'.read = "failed"
          THEN cb_log'.calls = <<>> /\ UNCHANGED <<cmdVars, rx_fifo>>
          ELSE LET frame == Head(rx_fifo)
                   calls == cb_log'.calls
               IN /\ cb_log'.frame = frame
                  /\ {calls[k].entry : k \in 1 .. Len(calls)} = MatchingEntries(rxCbs, frame)
                  /\ \A k \in 1 .. (Len(calls) - 1) : calls[k].entry < calls[k + 1].entry
                  /\ \A k \in 1 .. Len(calls) :
                        /\ calls[k].callback = rxCbs[calls[k].entry].callback
                        /\ calls[k].header = frame.id
                        /\ calls[k].data = frame.data]_vars

(* A frame was taken with three entries registered, two of them for its id  *)
(* with a callback and one not to be called, and both were called.          *)
C31_Witness ==
    /\ cb_log.read = "ok"
    /\ Len(rxCbs) = 3
    /\ Len(cb_log.calls) = 2
    /\ cb_log.calls[1].entry = 1
    /\ cb_log.calls[2].entry = 3

(***************************************************************************)
(* The scan cursor of the acquisition engine                               *)
(***************************************************************************)

(* C32: between any two calls of the acquisition engine a conversion        *)
(* marked in progress implies an active scan and an active channel in       *)
(* 0 .. 7, and an inactive scan implies no conversion in progress and the   *)
(* active channel 'none' (0xFF), also after a scan that ended because a     *)
(* conversion could not be started.                                         *)
C32_ScanCursorConsistent ==
    /\ (s_conv_in_progress = 1) =>
          (s_scan_active = 1 /\ s_active_channel \in 0 .. (ADC_MODULE_CHANNEL_COUNT - 1))
    /\ (s_scan_active = 0) =>
          (s_conv_in_progress = 0 /\ s_active_channel = NoChannel)

(***************************************************************************)
(* The converter is used by one conversion at a time                       *)
(***************************************************************************)

ConverterStep == adc_hw = "busy" /\ adc_hw' = "eoc"

(* C33: at most one conversion is in flight.  A conversion the converter    *)
(* holds (running or finished and unread) is the one the engine has marked  *)
(* in progress; a call of ADC_Module_Task made while it is still running    *)
(* starts nothing; a call made when it has finished starts the next one     *)
(* only after reading and stopping it; and no configuration call touches    *)
(* the converter.                                                           *)
C33_OneConversionInFlight ==
    /\ [](adc_hw # "idle" => s_conv_in_progress = 1)
    /\ [][/\ (TaskStep /\ adc_hw = "busy") =>
                UNCHANGED <<adc_hw, adc_dr, s_conv_in_progress, s_active_channel, cyc_seq>>
          /\ (TaskStep /\ adc_hw = "eoc" /\ adc_hw' = "busy") =>
                /\ acq_call'.stored = s_active_channel
                /\ s_raw'[s_active_channel] = adc_dr % 65536
          /\ (~TaskStep /\ ~ConverterStep) => UNCHANGED <<adc_hw, adc_dr>>]_vars

(* A second conversion of a scan is running: the first one was read and     *)
(* stopped by the call that started this one.                               *)
C33_Witness ==
    /\ acq_call.name = "task"
    /\ adc_hw = "busy"
    /\ s_conv_in_progress = 1
    /\ acq_call.stored # NoChannel
    /\ Len(cyc_seq) >= 2

(***************************************************************************)
(* Readings belong to enabled channels                                     *)
(***************************************************************************)

SlotsOf(ch) == <<s_raw[ch], s_pin_v[ch], s_scaled_v[ch]>>

(* C34: a call of ADC_Module_Task writes a raw count and voltages only to   *)
(* the slot of the channel whose conversion was started and has finished;   *)
(* a conversion is started only on a channel enabled at that moment, so     *)
(* none is started with the enable mask 0; no other call writes a reading;  *)
(* and the slots of a channel never enabled since ADC_Module_Init hold      *)
(* their initial zeros.                                                     *)
C34_ReadingsOnlyForEnabledChannels ==
    /\ [](\A ch \in Channels : ch \notin ever_enabled => SlotsOf(ch) = <<0, 0, 0>>)
    /\ [][/\ \A ch \in Channels :
                SlotsOf(ch)' # SlotsOf(ch) =>
                   /\ TaskStep
                   /\ s_conv_in_progress = 1 /\ adc_hw = "eoc"
                   /\ ch = s_active_channel
          /\ (adc_hw # "busy" /\ adc_hw' = "busy") =>
                /\ TaskStep
                /\ s_active_channel' \in EnabledChannels(s_enable_mask)
                /\ s_enable_mask # 0]_vars

(* A channel that was enabled and disabled again holds a reading while a    *)
(* channel never enabled holds none, and the engine is idle with mask 0.    *)
C34_Witness ==
    /\ s_enable_mask = 0
    /\ 1 \in ever_enabled
    /\ s_raw[1] # 0
    /\ 0 \notin ever_enabled
    /\ acq_call.name = "task"
    /\ adc_hw = "idle"

(***************************************************************************)
(* What a programmed identifier list lets through                          *)
(***************************************************************************)

(* C35: after a successful CAN_Module_Update_StdId_Filters with a non-empty *)
(* list the active banks accept exactly the stored identifiers' 11-bit      *)
(* values: the padding of the unused slots of the last bank lets no other   *)
(* identifier (such as 0x000) through.                                      *)
C35_ListBanksAcceptExactlyTheList ==
    (can_op.name = "filters" /\ can_ret = HAL_OK /\ s_filter_id_count > 0) =>
        AcceptedStdIds(filter_banks) = {s_filter_ids[i] % 2048 : i \in 1 .. s_filter_id_count}

(***************************************************************************)
(* The receive call and its 8-byte buffers                                 *)
(***************************************************************************)

(* C36: CAN_Module_Receive_Std moves at most 8 bytes, whatever DLC          *)
(* (0 .. 15) the received header reports: no byte is ever read behind the   *)
(* local receive buffer and written behind the caller's 8-byte buffer.      *)
C36_ReceiveMovesAtMostEightBytes == Len(out_spill) = 0

(***************************************************************************)
(* What a failed reconfiguration leaves behind                             *)
(***************************************************************************)

(* A call on an initialised module that returned an error.                  *)
HardwareStepFailed(name) == s_can # "NULL" /\ can_op'.name = name /\ can_ret' # HAL_OK

WrapTaskStep == TaskStep /\ ps_calls' = ps_calls /\ tx_mailboxes' = tx_mailboxes

(* C38: with the 32-bit tick running over its wrap, ADC_Module_Task opens   *)
(* a cycle only when the true time since the cycle start has reached        *)
(* s_cycle_interval_ms and, when idle, opens one as soon as it has; and     *)
(* Process_Signals_Send_Can_If_Due returns HAL_BUSY exactly as long as the  *)
(* true time since the last due call is below period_ms.                    *)
C38_DueChecksSurviveTickWrap ==
    [][/\ WrapTaskStep =>
            /\ (s_cycle_start_ms' # s_cycle_start_ms) =>
                  (uptime - cycle_up) >= s_cycle_interval_ms
            /\ (s_scan_active = 0 /\ (uptime - cycle_up) >= s_cycle_interval_ms) =>
                  (s_cycle_start_ms' = tick /\ cycle_up' = uptime)
       /\ PubCallStep =>
            /\ (ps_ret' = HAL_BUSY) <=> ((uptime - send_up) < ps_op'.period_ms)
            /\ (ps_ret' # HAL_BUSY) => (s_last_send_tick' = tick /\ send_up' = uptime)]_vars

(* Both checks came due for the first time after the wrap, measured from a  *)
(* start before it, exactly when their interval had passed.                 *)
C38_Witness ==
    /\ s_cycle_start_ms[1] = 0
    /\ cycle_up = s_cycle_interval_ms
    /\ s_last_send_tick[1] = 0
    /\ send_up = 2
    /\ Len(pub_attempts) = 1

(***************************************************************************)
(* The second value frame follows the first                                *)
(***************************************************************************)

(* The frames the controller took over in this step.                        *)
NewlyQueued ==
    IF Len(pub_sent') = 0 THEN <<>>
    ELSE SubSeq(tx_mailboxes', Len(tx_mailboxes') - Len(pub_sent') + 1, Len(tx_mailboxes'))

(* C39: in a publish, when the send of the first frame (channels 0..3)      *)
(* does not return HAL_OK the second frame (channels 4..7) is not           *)
(* attempted and that status is returned: the frames handed over are none,  *)
(* or node_id+1 alone, or node_id+1 followed by node_id+2, and a frame      *)
(* node_id+2 is never queued without the frame node_id+1 of the same        *)
(* publish before it.                                                       *)
C39_SecondFrameOnlyAfterFirst ==
    [][(PubCallStep /\ ps_ret' # HAL_BUSY) =>
          /\ Len(pub_sent') \in 0 .. 2
          /\ Len(pub_sent') = 0 =>
                /\ ps_ret' \in {HAL_TIMEOUT, HAL_ERROR}
                /\ \E k \in 0 .. Len(tx_mailboxes) :
                      tx_mailboxes' = SubSeq(tx_mailboxes, k + 1, Len(tx_mailboxes))
          /\ Len(pub_sent') >= 1 =>
                /\ pub_sent'[1].id = s_node_id + 1
                /\ pub_sent'[1].data = MvFrame(s_v_in_mV', 0)
                /\ NewlyQueued = pub_sent'
          /\ Len(pub_sent') = 1 => ps_ret' \in {HAL_TIMEOUT, HAL_ERROR}
          /\ Len(pub_sent') = 2 =>
                /\ pub_sent'[2].id = s_node_id + 2
                /\ pub_sent'[2].data = MvFrame(s_v_in_mV', 4)
                /\ ps_ret' = HAL_OK]_vars

(* A publish whose first send was refused although a mailbox was free:      *)
(* nothing was queued.                                                      *)
C39_Witness ==
    /\ ps_op.name = "send_if_due"
    /\ ps_ret = HAL_ERROR
    /\ pub_sent = <<>>
    /\ Len(tx_mailboxes) < TxMailboxCount
    /\ Len(pub_attempts) >= 1

====
